---- MODULE Spec2Model ----
(***************************************************************************)
(* RetroVoid: the library scanner (scan_library), its string helpers, the  *)
(* games table it reconciles against, the commands that launch games and   *)
(* track play sessions, and the platform table of the metadata client.     *)
(*                                                                         *)
(* Strings are TLA+ strings; a character is a string of length one.        *)
(***************************************************************************)
EXTENDS Integers, Sequences, FiniteSets, TLC

(***************************************************************************)
(* Bounds of the model.                                                    *)
(***************************************************************************)
MaxFiles == 4      \* files on disk in the initial state
MaxRoots == 2      \* scan paths in one scan_library call
MaxScans == 2      \* scan_library calls in one behaviour
MaxFaults == 1     \* injected I/O failures (catalog calls, playlist writes)
MaxDisturbances == 1  \* files put on the disk by somebody else, and crashes
MaxSegments == 3   \* segments of a path given to detect_platform_from_path
MaxDiscs == 12     \* the greatest disc number in a file name
MaxTitleLen == 5   \* characters of a made-up name given to clean_rom_title
MaxGames == 2      \* add_game commands in one behaviour
MaxLaunches == 2   \* launch_game (or launch_game_with_emulator) commands
MaxEnds == 2       \* end_game_session commands
MaxClock == 2      \* seconds that pass in one behaviour
MaxBatch == 2      \* ids in the list given to delete_games_batch
MaxDeletes == 2    \* delete_games_batch calls

\* Option<String>: a string or None.  Option<u32>: <<n>> or NoNumber.
None == "<none>"
NoNumber == <<>>
Some(n) == <<n>>

(***************************************************************************)
(* Characters and strings (std::str).                                      *)
(***************************************************************************)
Ch(s, i) == SubSeq(s, i, i)

Upper == <<"A","B","C","D","E","F","G","H","I","J","K","L","M",
           "N","O","P","Q","R","S","T","U","V","W","X","Y","Z">>
Lower == <<"a","b","c","d","e","f","g","h","i","j","k","l","m",
           "n","o","p","q","r","s","t","u","v","w","x","y","z">>
Digits == <<"0","1","2","3","4","5","6","7","8","9">>

IsDigit(c) == \E d \in 1..10 : Digits[d] = c
IsSpace(c) == c = " "

DigitVal(c) == (CHOOSE d \in 1..10 : Digits[d] = c) - 1

LowerCh(c) == IF \E k \in 1..26 : Upper[k] = c
              THEN Lower[CHOOSE k \in 1..26 : Upper[k] = c]
              ELSE c

RECURSIVE to_lowercase(_)
to_lowercase(s) ==
    IF Len(s) = 0 THEN ""
    ELSE LowerCh(Ch(s, 1)) \o to_lowercase(SubSeq(s, 2, Len(s)))

starts_with(s, pre) == Len(pre) <= Len(s) /\ SubSeq(s, 1, Len(pre)) = pre
ends_with(s, suf) ==
    Len(suf) <= Len(s) /\ SubSeq(s, Len(s) - Len(suf) + 1, Len(s)) = suf
contains(s, sub) ==
    \E i \in 1..(Len(s) - Len(sub) + 1) : SubSeq(s, i, i + Len(sub) - 1) = sub

\* str::trim
RECURSIVE trim_start(_)
trim_start(s) ==
    IF Len(s) > 0 /\ IsSpace(Ch(s, 1)) THEN trim_start(SubSeq(s, 2, Len(s))) ELSE s
RECURSIVE trim_end(_)
trim_end(s) ==
    IF Len(s) > 0 /\ IsSpace(Ch(s, Len(s)))
    THEN trim_end(SubSeq(s, 1, Len(s) - 1)) ELSE s
trim(s) == trim_end(trim_start(s))

\* s.split_whitespace().collect::<Vec<_>>().join(" ")
RECURSIVE CollapseSpaces(_)
CollapseSpaces(s) ==
    LET t == trim_start(s) IN
    IF Len(t) = 0 THEN ""
    ELSE LET wordEnd == CHOOSE e \in 1..Len(t) :
                            /\ \A k \in 1..e : ~IsSpace(Ch(t, k))
                            /\ (e = Len(t) \/ IsSpace(Ch(t, e + 1)))
             rest == CollapseSpaces(SubSeq(t, wordEnd + 1, Len(t)))
         IN  IF Len(rest) = 0 THEN SubSeq(t, 1, wordEnd)
             ELSE SubSeq(t, 1, wordEnd) \o " " \o rest

\* str::parse::<u32>() of a run of ASCII digits: None above u32::MAX, which
\* is decided on the digits (leading zeros dropped).  The value is computed
\* as a TLC integer, so the file names of the model keep below 2^31.
U32MaxDigits == "4294967295"
RECURSIVE StripZeros(_)
StripZeros(s) ==
    IF Len(s) > 1 /\ Ch(s, 1) = "0" THEN StripZeros(SubSeq(s, 2, Len(s))) ELSE s
RECURSIVE DigitsLeq(_, _)
\* a <= b for two digit strings of the same length
DigitsLeq(a, b) ==
    IF Len(a) = 0 THEN TRUE
    ELSE IF Ch(a, 1) # Ch(b, 1) THEN DigitVal(Ch(a, 1)) < DigitVal(Ch(b, 1))
    ELSE DigitsLeq(SubSeq(a, 2, Len(a)), SubSeq(b, 2, Len(b)))
RECURSIVE DigitsValue(_)
DigitsValue(s) ==
    IF Len(s) = 0 THEN 0
    ELSE 10 * DigitsValue(SubSeq(s, 1, Len(s) - 1)) + DigitVal(Ch(s, Len(s)))
parse_u32(s) ==
    LET d == StripZeros(s) IN
    IF Len(d) > Len(U32MaxDigits) THEN NoNumber
    ELSE IF Len(d) = Len(U32MaxDigits) /\ ~DigitsLeq(d, U32MaxDigits) THEN NoNumber
    ELSE Some(DigitsValue(d))

(***************************************************************************)
(* The regex crate, for the patterns the scanner uses.  A pattern is a     *)
(* sequence of elements; every repetition in these patterns is over a      *)
(* character class disjoint from what may follow it, so the greedy match   *)
(* is the only match and no backtracking is modelled.                      *)
(*   <<"lit", w>>      the literal w, case-insensitively                   *)
(*   <<"set", S>>      one character of S                                  *)
(*   <<"sp*">>         \s*            <<"sp+">>      \s+                   *)
(*   <<"num">>         (\d+) or \d+   <<"optof">>    (?:\s*of\s*\d+)?      *)
(*   <<"not*", S>>     [^S]*          <<"eos">>      $                     *)
(* MatchAt gives the index of the last character of the match that starts  *)
(* at i (i - 1 for an empty match), or -1 when there is none.              *)
(***************************************************************************)
NoMatch == -1

SpaceChars == {" "}
DigitChars == {Digits[d] : d \in 1..10}

RECURSIVE SkipIn(_, _, _)
\* the first index >= i whose character is not in the class S
SkipIn(s, i, S) ==
    IF i <= Len(s) /\ Ch(s, i) \in S THEN SkipIn(s, i + 1, S) ELSE i
RECURSIVE SkipNotIn(_, _, _)
\* the first index >= i whose character is in S (a negated class [^S])
SkipNotIn(s, i, S) ==
    IF i <= Len(s) /\ Ch(s, i) \notin S THEN SkipNotIn(s, i + 1, S) ELSE i

SkipSpaces(s, i) == SkipIn(s, i, SpaceChars)
SkipDigits(s, i) == SkipIn(s, i, DigitChars)

\* (?:\s*of\s*\d+)? at i: the index after it (i when the group is absent)
AfterOptOf(s, i) ==
    LET a == SkipSpaces(s, i)
        b == SkipSpaces(s, a + 2)
        c == SkipDigits(s, b)
    IN  IF a + 1 <= Len(s) /\ to_lowercase(SubSeq(s, a, a + 1)) = "of" /\ c > b
        THEN c ELSE i

RECURSIVE MatchFrom(_, _, _, _)
\* elements k.. of pat against s from index i: the index after the match, or NoMatch
MatchFrom(pat, k, s, i) ==
    IF k > Len(pat) THEN i
    ELSE
      LET el == pat[k] IN
      CASE el[1] = "lit" ->
             IF i + Len(el[2]) - 1 <= Len(s)
                /\ to_lowercase(SubSeq(s, i, i + Len(el[2]) - 1)) = el[2]
             THEN MatchFrom(pat, k + 1, s, i + Len(el[2])) ELSE NoMatch
        [] el[1] = "set" ->
             IF i <= Len(s) /\ Ch(s, i) \in el[2]
             THEN MatchFrom(pat, k + 1, s, i + 1) ELSE NoMatch
        [] el[1] = "sp*" -> MatchFrom(pat, k + 1, s, SkipSpaces(s, i))
        [] el[1] = "sp+" ->
             IF SkipSpaces(s, i) > i
             THEN MatchFrom(pat, k + 1, s, SkipSpaces(s, i)) ELSE NoMatch
        [] el[1] = "num" ->
             IF SkipDigits(s, i) > i
             THEN MatchFrom(pat, k + 1, s, SkipDigits(s, i)) ELSE NoMatch
        [] el[1] = "optof" ->
             \* the group is tried first; without it the next element must match at i
             IF MatchFrom(pat, k + 1, s, AfterOptOf(s, i)) # NoMatch
             THEN MatchFrom(pat, k + 1, s, AfterOptOf(s, i))
             ELSE MatchFrom(pat, k + 1, s, i)
        [] el[1] = "not*" ->
             MatchFrom(pat, k + 1, s, SkipNotIn(s, i, el[2]))
        [] el[1] = "eos" ->
             IF i = Len(s) + 1 THEN MatchFrom(pat, k + 1, s, i) ELSE NoMatch

MatchAt(pat, s, i) ==
    IF MatchFrom(pat, 1, s, i) = NoMatch THEN NoMatch ELSE MatchFrom(pat, 1, s, i) - 1

\* Regex::captures: the start of the leftmost match, 0 when nothing matches
FindStart(pat, s) ==
    IF \E i \in 1..(Len(s) + 1) : MatchAt(pat, s, i) # NoMatch
    THEN CHOOSE i \in 1..(Len(s) + 1) :
            /\ MatchAt(pat, s, i) # NoMatch
            /\ \A j \in 1..(i - 1) : MatchAt(pat, s, j) = NoMatch
    ELSE 0

\* the text of capture group 1 (the first "num") of the match that starts at i
RECURSIVE NumStart(_, _, _, _)
NumStart(pat, k, s, i) ==
    LET el == pat[k] IN
    IF el[1] = "num" THEN i
    ELSE NumStart(pat, k + 1, s, MatchFrom(SubSeq(pat, k, k), 1, s, i))
Capture1(pat, s, i) ==
    LET b == NumStart(pat, 1, s, i) IN SubSeq(s, b, SkipDigits(s, b) - 1)

RECURSIVE ReplaceFrom(_, _, _)
ReplaceFrom(pat, s, i) ==
    IF i > Len(s) THEN ""
    ELSE IF MatchAt(pat, s, i) >= i
         THEN ReplaceFrom(pat, s, MatchAt(pat, s, i) + 1)
         ELSE Ch(s, i) \o ReplaceFrom(pat, s, i + 1)
\* Regex::replace_all(s, "")
replace_all(pat, s) == ReplaceFrom(pat, s, 1)

(***************************************************************************)
(* std::path::Path on '/'-separated paths.                                 *)
(***************************************************************************)
\* the index of the last occurrence of the character c in s, 0 when absent
LastIndexOf(s, c) ==
    IF \E i \in 1..Len(s) : Ch(s, i) = c
    THEN CHOOSE i \in 1..Len(s) :
            Ch(s, i) = c /\ \A j \in (i + 1)..Len(s) : Ch(s, j) # c
    ELSE 0

\* Path::file_name
file_name(path) == SubSeq(path, LastIndexOf(path, "/") + 1, Len(path))
\* Path::parent
parent(path) == SubSeq(path, 1, LastIndexOf(path, "/") - 1)
\* Path::join
join(dir, name) == dir \o "/" \o name

\* Path::extension: what follows the last '.' of the file name; None when the
\* name has no '.' or only a leading one
extension(path) ==
    LET n == file_name(path)
        d == LastIndexOf(n, ".")
    IN  IF d <= 1 THEN None ELSE SubSeq(n, d + 1, Len(n))
\* Path::file_stem
file_stem(path) ==
    LET n == file_name(path)
        d == LastIndexOf(n, ".")
    IN  IF d <= 1 THEN n ELSE SubSeq(n, 1, d - 1)

\* path.split(['/', '\\']): the parts between the separators
Separators == {"/", "\\"}
RECURSIVE split(_)
split(path) ==
    IF \E i \in 1..Len(path) : Ch(path, i) \in Separators
    THEN LET i == CHOOSE i \in 1..Len(path) :
                      /\ Ch(path, i) \in Separators
                      /\ \A j \in 1..(i - 1) : Ch(path, j) \notin Separators
         IN  <<SubSeq(path, 1, i - 1)>> \o split(SubSeq(path, i + 1, Len(path)))
    ELSE <<path>>

(***************************************************************************)
(* The platforms table as the scanner reads it: the rows of                *)
(* init_default_platforms after run_migrations, in the order of            *)
(* get_all_platforms (ORDER BY manufacturer, display_name).                *)
(***************************************************************************)
Platforms == <<
    [id |-> "atari2600",    file_extensions |-> <<".a26", ".bin">>],
    [id |-> "atari7800",    file_extensions |-> <<".a78", ".bin">>],
    [id |-> "atarijaguar",  file_extensions |-> <<".j64", ".jag", ".rom">>],
    [id |-> "xbox",         file_extensions |-> <<".iso">>],
    [id |-> "xbox360",      file_extensions |-> <<".iso", ".stfs">>],
    [id |-> "pcengine",     file_extensions |-> <<".pce">>],
    [id |-> "gb",           file_extensions |-> <<".gb">>],
    [id |-> "gba",          file_extensions |-> <<".gba">>],
    [id |-> "gbc",          file_extensions |-> <<".gbc">>],
    [id |-> "gamecube",     file_extensions |-> <<".iso", ".gcz", ".rvz">>],
    [id |-> "nes",          file_extensions |-> <<".nes", ".unf">>],
    [id |-> "3ds",          file_extensions |-> <<".3ds", ".cia">>],
    [id |-> "n64",          file_extensions |-> <<".n64", ".z64", ".v64">>],
    [id |-> "nds",          file_extensions |-> <<".nds">>],
    [id |-> "switch",       file_extensions |-> <<".nsp", ".xci">>],
    [id |-> "snes",         file_extensions |-> <<".sfc", ".smc">>],
    [id |-> "virtualboy",   file_extensions |-> <<".vb", ".vboy">>],
    [id |-> "wii",          file_extensions |-> <<".iso", ".wbfs", ".rvz", ".wad">>],
    [id |-> "dos",          file_extensions |-> <<".exe", ".com">>],
    [id |-> "scummvm",      file_extensions |-> <<>>],
    [id |-> "windows",      file_extensions |-> <<>>],
    [id |-> "3do",          file_extensions |-> <<".iso", ".chd", ".cue", ".m3u">>],
    [id |-> "neogeo",       file_extensions |-> <<".zip">>],
    [id |-> "dreamcast",    file_extensions |-> <<".cue", ".cdi", ".chd">>],
    [id |-> "gamegear",     file_extensions |-> <<".gg">>],
    [id |-> "mastersystem", file_extensions |-> <<".sms">>],
    [id |-> "genesis",      file_extensions |-> <<".md", ".gen", ".bin">>],
    [id |-> "saturn",       file_extensions |-> <<".iso", ".cue", ".chd", ".m3u">>],
    [id |-> "ps1",          file_extensions |-> <<".cue", ".chd", ".iso">>],
    [id |-> "ps2",          file_extensions |-> <<".iso", ".chd", ".m3u">>],
    [id |-> "ps3",          file_extensions |-> <<>>],
    [id |-> "psp",          file_extensions |-> <<".iso", ".cso">>],
    [id |-> "vita",         file_extensions |-> <<".vpk", ".zip">>],
    [id |-> "arcade",       file_extensions |-> <<".zip">>] >>

M3uPlatforms == <<"ps1", "ps2", "saturn", "dreamcast", "segacd", "pce", "3do">>

\* the platform ids, in table order, of the rows k.. that list the extension
RECURSIVE PlatformsListing(_, _)
PlatformsListing(ext, k) ==
    IF k > Len(Platforms) THEN <<>>
    ELSE LET exts == Platforms[k].file_extensions
             hits == SelectSeq(exts, LAMBDA e : to_lowercase(e) = ext)
         IN  [j \in 1..Len(hits) |-> Platforms[k].id] \o PlatformsListing(ext, k + 1)

\* ext_to_platforms.get(ext): the candidates in insertion order, <<>> for no key
ext_to_platforms(ext) ==
    PlatformsListing(ext, 1) \o (IF ext = ".m3u" THEN M3uPlatforms ELSE <<>>)

platform_hints == <<
    <<"ps2", <<"ps2", "playstation 2", "playstation2", "sony ps2">>>>,
    <<"ps1", <<"ps1", "psx", "playstation 1", "playstation1", "psone">>>>,
    <<"psp", <<"psp", "playstation portable">>>>,
    <<"ps3", <<"ps3", "playstation 3", "playstation3">>>>,
    <<"vita", <<"vita", "psvita", "ps vita">>>>,
    <<"gamecube", <<"gamecube", "gcn", "ngc", "nintendo gamecube">>>>,
    <<"wii", <<"wii", "nintendo wii">>>>,
    <<"switch", <<"switch", "nintendo switch", "nx">>>>,
    <<"n64", <<"n64", "nintendo 64", "nintendo64">>>>,
    <<"snes", <<"snes", "super nintendo", "super nes", "sfc">>>>,
    <<"nes", <<"nes", "nintendo entertainment", "famicom">>>>,
    <<"gba", <<"gba", "gameboy advance", "game boy advance">>>>,
    <<"gbc", <<"gbc", "gameboy color", "game boy color">>>>,
    <<"gb", <<"gameboy", "game boy">>>>,
    <<"nds", <<"nds", "nintendo ds", "ds">>>>,
    <<"3ds", <<"3ds", "nintendo 3ds">>>>,
    <<"genesis", <<"genesis", "mega drive", "megadrive", "sega genesis">>>>,
    <<"saturn", <<"saturn", "sega saturn">>>>,
    <<"dreamcast", <<"dreamcast", "sega dreamcast">>>>,
    <<"xbox", <<"xbox", "original xbox">>>>,
    <<"xbox360", <<"xbox 360", "xbox360", "x360">>>>,
    <<"arcade", <<"arcade", "mame", "fba", "fbneo">>>> >>

\* the keyword anywhere in the part
KeywordContained(part, keyword) == contains(part, keyword)

\* the closure of detect_platform_from_path: does the keyword match the part?
KeywordMatches(part, keyword) ==
    \/ part = keyword
    \/ contains(part, keyword \o " ")
    \/ contains(part, " " \o keyword)
    \/ starts_with(part, keyword \o "_")
    \/ ends_with(part, "_" \o keyword)

HintMatches(path, h) ==
    LET parts == split(to_lowercase(path))
    IN  \E w \in 1..Len(platform_hints[h][2]) : \E q \in 1..Len(parts) :
            KeywordMatches(parts[q], platform_hints[h][2][w])

detect_platform_from_path(path) ==
    IF \E h \in 1..Len(platform_hints) : HintMatches(path, h)
    THEN platform_hints[CHOOSE h \in 1..Len(platform_hints) :
            /\ HintMatches(path, h)
            /\ \A g \in 1..(h - 1) : ~HintMatches(path, g)][1]
    ELSE None

(***************************************************************************)
(* Title and disc helpers.                                                 *)
(***************************************************************************)
\* the patterns without the one for braces
RoundAndSquare == <<
    << <<"sp*">>, <<"set", {"("}>>, <<"not*", {")"}>>, <<"set", {")"}>> >>,
    << <<"sp*">>, <<"set", {"["}>>, <<"not*", {"]"}>>, <<"set", {"]"}>> >> >>

TitlePatterns == <<
    << <<"sp*">>, <<"set", {"("}>>, <<"not*", {")"}>>, <<"set", {")"}>> >>,
    << <<"sp*">>, <<"set", {"["}>>, <<"not*", {"]"}>>, <<"set", {"]"}>> >>,
    << <<"sp*">>, <<"set", {"{"}>>, <<"not*", {"}"}>>, <<"set", {"}"}>> >> >>

RECURSIVE ReplaceEach(_, _, _)
\* the loop `for pattern in patterns { s = re.replace_all(&s, "") }`
ReplaceEach(patterns, k, s) ==
    IF k > Len(patterns) THEN s
    ELSE ReplaceEach(patterns, k + 1, replace_all(patterns[k], s))

clean_rom_title(title) == CollapseSpaces(ReplaceEach(TitlePatterns, 1, title))

Open == {"(", "["}
Close == {")", "]"}
Bracketed(word, withOf) ==
    << <<"set", Open>>, <<"sp*">>, <<"lit", word>>, <<"sp*">>, <<"num">> >>
    \o (IF withOf THEN << <<"optof">> >> ELSE <<>>)
    \o << <<"set", Close>> >>
Hyphened(word) ==
    << <<"sp*">>, <<"set", {"-"}>>, <<"sp*">>, <<"lit", word>>, <<"sp*">>, <<"num">> >>
Trailing(word) ==
    << <<"sp+">>, <<"lit", word>>, <<"sp*">>, <<"num">>, <<"eos">> >>
Underscored(word) == << <<"lit", "_" \o word>>, <<"num">> >>

DiscPatterns == <<
    Bracketed("disc", TRUE), Bracketed("disk", TRUE), Bracketed("cd", FALSE),
    Hyphened("disc"), Hyphened("disk"), Hyphened("cd"),
    Trailing("disc"), Trailing("disk"), Trailing("cd"),
    Underscored("disc"), Underscored("cd") >>

RECURSIVE DiscNumberFrom(_, _)
\* the first pattern, from k on, that matches and whose number parses
DiscNumberFrom(s, k) ==
    IF k > Len(DiscPatterns) THEN NoNumber
    ELSE LET b == FindStart(DiscPatterns[k], s) IN
         IF b # 0 /\ parse_u32(Capture1(DiscPatterns[k], s, b)) # NoNumber
         THEN parse_u32(Capture1(DiscPatterns[k], s, b))
         ELSE DiscNumberFrom(s, k + 1)

get_disc_number(filename) == DiscNumberFrom(to_lowercase(filename), 1)

\* the indicators removed, the whitespace around them left
BaseUntrimmed(filename) == ReplaceEach(DiscPatterns, 1, filename)

get_base_game_name(filename) == trim(ReplaceEach(DiscPatterns, 1, filename))

is_disc_extension(ext) ==
    ext \in {".cue", ".iso", ".chd", ".mdf", ".nrg", ".img", ".ccd"}

(***************************************************************************)
(* The disk.  Directories are fixed; files come and go.  /link is a        *)
(* symbolic link to /roms, so that a walked path and its canonical form    *)
(* differ (WalkDir follows links, canonicalize resolves them).             *)
(***************************************************************************)
Dirs == {"/roms", "/roms/genesis", "/roms/ps2", "/roms/ps3"}
LinkFrom == "/link"
LinkTo == "/roms"

\* the files somebody may put on the disk
Universe == {
    "/roms/Game (Disc 1).cue",
    "/roms/Game (Disc 2).cue",
    "/roms/Game.m3u",
    "/roms/Mix.m3u",
    "/roms/Solo - CD1 (USA).chd",
    "/roms/Solo - CD2 (USA).chd",
    "/roms/Mario (USA).sfc" }

\* the order in which a directory lists its entries (WalkDir does not sort);
\* it covers the universe and the playlists a scan may add to it
DirOrder == <<
    "/roms/Mix.m3u",
    "/roms/Game (Disc 2).cue",
    "/roms/Game.m3u",
    "/roms/Mario (USA).sfc",
    "/roms/Game (Disc 1).cue",
    "/roms/Solo - CD2 (USA).chd",
    "/roms/Solo - CD1 (USA).chd",
    "/roms/Solo (USA).m3u",
    "/roms/Track.bin",
    "/roms/Game.iso",
    "/roms/Track.cue",
    "/roms/genesis/Sonic.bin",
    "/roms/genesis/Sonic.CUE",
    "/roms/ps2/Game.iso",
    "/roms/ps3/Game.iso",
    "/roms/Game (Disc 1).chd" >>

RootPaths == {"/roms", "/link", "/missing"}
\* the platform overrides a caller may give for a folder
Overrides == [path \in RootPaths |-> IF path = "/roms" THEN {None, "saturn"} ELSE {None}]

UserContent == "#user"
RomContent == "rom"

\* follow the symbolic link at the head of a path
Resolve(path) ==
    IF path = LinkFrom \/ starts_with(path, LinkFrom \o "/")
    THEN LinkTo \o SubSeq(path, Len(LinkFrom) + 1, Len(path))
    ELSE path

\* the path under which a walk from root reports the file at physical path phys
Rebase(phys, root) ==
    root \o SubSeq(phys, Len(Resolve(root)) + 1, Len(phys))

\* the normalized extension of an entry: '.' and the lower-cased extension
Ext(file_path) ==
    IF extension(file_path) = None THEN None
    ELSE "." \o to_lowercase(extension(file_path))

(***************************************************************************)
(* The paths of the model are a finite set, so what the string functions   *)
(* give for them is tabulated once; the actions read the tables.           *)
(***************************************************************************)
PhysPaths == {DirOrder[k] : k \in 1..Len(DirOrder)}
WalkRoots == {r \in RootPaths : Resolve(r) \in Dirs}
WalkPaths ==
    {Rebase(ph, r) : <<ph, r>> \in
        {pr \in PhysPaths \X WalkRoots : starts_with(pr[1], Resolve(pr[2]) \o "/")}}
WalkDirs == {Rebase(d, r) : <<d, r>> \in
                {dr \in Dirs \X WalkRoots : starts_with(dr[1], Resolve(dr[2]))}}
KnownPaths == PhysPaths \cup WalkPaths \cup RootPaths \cup Dirs \cup WalkDirs

Resolved == [path \in KnownPaths |-> Resolve(path)]
Parent == [path \in KnownPaths |-> parent(path)]
FileName == [path \in KnownPaths |-> file_name(path)]
FileStem == [path \in KnownPaths |-> file_stem(path)]
ExtOf == [path \in KnownPaths |-> Ext(path)]
Detected == [path \in KnownPaths |-> detect_platform_from_path(path)]
Candidates ==
    [path \in KnownPaths |->
        IF Ext(path) = None THEN <<>> ELSE ext_to_platforms(Ext(path))]

\* the entries of a walk from root, should every file of DirOrder exist
RECURSIVE WalkFrom(_, _)
WalkFrom(root, k) ==
    IF k > Len(DirOrder) THEN <<>>
    ELSE (IF starts_with(DirOrder[k], Resolve(root) \o "/")
          THEN <<Rebase(DirOrder[k], root)>> ELSE <<>>) \o WalkFrom(root, k + 1)
FullWalk == [root \in WalkRoots |-> WalkFrom(root, 1)]

VARIABLES
    library,    \* the folders of the library, which every scan is asked to scan
    disk,       \* physical path -> content, for the files that exist
    games,      \* the games table: a set of rows
    nextId,     \* caller -> how many ids (Uuid::new_v4) it has drawn
    scan,       \* caller -> the local state of its scan_library call
    hist,       \* the Scan Results returned so far, in order
    epoch,      \* counts what happens to disk and table besides completed scans
    started,    \* scan_library calls started
    faults,     \* failures injected so far
    call,       \* a helper function applied on its own: argument and result
    active_sessions,          \* AppState::active_sessions: game id -> ActiveSession
    play_sessions,            \* the play_sessions table: a set of rows
    total_play_time_seconds,  \* game id -> that column of the games table
    clock,                    \* chrono::Utc::now, in seconds
    command,    \* caller -> the local state of its launch or end_game_session call
    journal     \* the launches that succeeded and the other commands returned, in order

\* what launching and ending game sessions reads and writes
tracking ==
    <<active_sessions, play_sessions, total_play_time_seconds, clock, command, journal>>

vars == <<library, disk, games, nextId, scan, hist, epoch, started, faults, call,
          active_sessions, play_sessions, total_play_time_seconds, clock, command,
          journal>>

\* no helper function is being applied
NoCall == [fn |-> "none"]

\* the map with no key
Nothing == [key \in {} |-> None]

\* the caller is in no launch or end_game_session command
NoCommand == [fn |-> "none", pc |-> "idle"]

Callers == {"c1", "c2"}

\* Path::exists
exists(path) == Resolved[path] \in Dirs \/ Resolved[path] \in DOMAIN disk

\* the path as it was given
AsGiven(path) == path

\* Path::canonicalize, with the caller's fallback to the path as given
canonicalize(path) == IF exists(path) THEN Resolved[path] ELSE path

\* std::fs::write
WriteFile(d, path, content) ==
    [q \in DOMAIN d \cup {Resolved[path]} |->
        IF q = Resolved[path] THEN content ELSE d[q]]

\* WalkDir::new(root).follow_links(true): the regular files below root
Walk(root) == SelectSeq(FullWalk[root], LAMBDA e : Resolved[e] \in DOMAIN disk)

(***************************************************************************)
(* The games table (db.rs).                                                *)
(***************************************************************************)
\* Game::new
NewGame(id, title, rom_path, platform_id) ==
    [id |-> id, title |-> title, rom_path |-> rom_path, platform_id |-> platform_id]

\* Database::get_game_by_path: is there a row with this rom_path?
get_game_by_path(rom_path) == \E g \in games : g.rom_path = rom_path

\* the games table without UNIQUE on rom_path
InsertWithoutUnique(game) == \A g \in games : g.id # game.id

\* the constraints of the games table that an INSERT checks
InsertAllowed(game) ==
    /\ \A g \in games : g.id # game.id                \* id TEXT PRIMARY KEY
    /\ \A g \in games : g.rom_path # game.rom_path    \* rom_path TEXT NOT NULL UNIQUE

(***************************************************************************)
(* scan_library, phase 1: what the walk of one root collects.              *)
(***************************************************************************)
\* the directory is not looked at
NoCueFile(dir) == FALSE

\* read_dir(parent) has an entry with the extension cue, in any case
has_cue_file(dir) ==
    \E q \in DOMAIN disk : Parent[q] = Resolved[dir] /\ ExtOf[q] = ".cue"

\* does the walk push a DiscoveredFile for this entry?
IsCandidate(file_path) ==
    /\ ExtOf[file_path] # None
    /\ ~(ExtOf[file_path] = ".bin" /\ has_cue_file(Parent[file_path]))
    /\ Candidates[file_path] # <<>>

InSeq(x, seq) == \E k \in 1..Len(seq) : seq[k] = x

\* the hint taken whether the extension allows its platform or not
ResolveByHint(file_path, override) ==
    IF override # None THEN override
    ELSE IF Len(Candidates[file_path]) = 1 THEN Candidates[file_path][1]
    ELSE IF Detected[Resolved[file_path]] # None THEN Detected[Resolved[file_path]]
    ELSE Candidates[file_path][1]

\* the platform id of a candidate entry; the entry exists, so canonicalize
\* gives its resolved path
ResolvePlatform(file_path, override) ==
    LET possible_platforms == Candidates[file_path]
        detected == Detected[Resolved[file_path]]
    IN  IF override # None THEN override
        ELSE IF Len(possible_platforms) = 1 THEN possible_platforms[1]
        ELSE IF detected # None /\ InSeq(detected, possible_platforms) THEN detected
        ELSE possible_platforms[1]

DiscNumber(file_path) ==
    IF is_disc_extension(ExtOf[file_path])
    THEN get_disc_number(FileStem[file_path]) ELSE NoNumber

BaseName(file_path) ==
    IF DiscNumber(file_path) # NoNumber
    THEN get_base_game_name(FileStem[file_path]) ELSE FileStem[file_path]

\* the DiscoveredFile of an entry, but for its platform id
Annotated ==
    [file_path \in WalkPaths |->
        [path |-> file_path,
         extension |-> ExtOf[file_path],
         disc_number |-> DiscNumber(file_path),
         base_name |-> BaseName(file_path)]]

DiscoveredFile(file_path, override) ==
    [path |-> file_path,
     extension |-> Annotated[file_path].extension,
     platform_id |-> ResolvePlatform(file_path, override),
     disc_number |-> Annotated[file_path].disc_number,
     base_name |-> Annotated[file_path].base_name]

RECURSIVE Collect(_, _, _)
Collect(entries, k, override) ==
    IF k > Len(entries) THEN <<>>
    ELSE (IF IsCandidate(entries[k])
          THEN <<DiscoveredFile(entries[k], override)>> ELSE <<>>)
         \o Collect(entries, k + 1, override)

ExistingM3u(entries) ==
    {entries[k] : k \in {j \in 1..Len(entries) : ExtOf[entries[j]] = ".m3u"}}

\* clean_rom_title of the names that become titles
Title ==
    [name \in {Annotated[f].base_name : f \in WalkPaths}
              \cup {FileStem[f] : f \in WalkPaths} |-> clean_rom_title(name)]

(***************************************************************************)
(* Phase 2: the disc groups.                                               *)
(***************************************************************************)
GroupKey(file) == <<Parent[file.path], file.base_name>>

\* multi_disc_groups: (directory, base name) -> the (disc number, path) pairs
\* of the discovered files with a disc number, in discovery order
GroupsOf(discovered) ==
    LET withDisc == SelectSeq(discovered, LAMBDA f : f.disc_number # NoNumber)
        keys == {GroupKey(withDisc[k]) : k \in 1..Len(withDisc)}
    IN  [key \in keys |->
            LET members == SelectSeq(withDisc, LAMBDA f : GroupKey(f) = key)
            IN  [k \in 1..Len(members) |->
                    <<members[k].disc_number[1], members[k].path>>]]

potential_m3u(key) == join(key[1], key[2] \o ".m3u")

\* covered_disc_files left empty
CoveredNone(groups) == {}

\* `discs.len() > 0` in the place of `discs.len() > 1`
CoveredAll(groups) ==
    UNION {{groups[key][k][2] : k \in 1..Len(groups[key])} : key \in DOMAIN groups}

\* the disc paths of every group with more than one disc
CoveredBy(groups) ==
    UNION {{groups[key][k][2] : k \in 1..Len(groups[key])} :
              key \in {g \in DOMAIN groups : Len(groups[g]) > 1}}

\* the discs in the order of discovery
Unsorted(discs) == discs

\* sort_by_key(|(num, _)| *num): stable insertion into a sorted prefix
RECURSIVE SortDiscs(_)
SortDiscs(discs) ==
    IF Len(discs) <= 1 THEN discs
    ELSE LET last == discs[Len(discs)]
             init == SortDiscs(SubSeq(discs, 1, Len(discs) - 1))
             before == SelectSeq(init, LAMBDA d : d[1] <= last[1])
             after == SelectSeq(init, LAMBDA d : d[1] > last[1])
         IN  before \o <<last>> \o after

RECURSIVE JoinLines(_)
JoinLines(lines) ==
    IF Len(lines) = 0 THEN ""
    ELSE IF Len(lines) = 1 THEN lines[1]
    ELSE lines[1] \o "\n" \o JoinLines(Tail(lines))

\* generate_m3u_playlist: the content it writes
PlaylistContent(discs) ==
    LET sorted_discs == SortDiscs(discs)
    IN  JoinLines([k \in 1..Len(sorted_discs) |-> FileName[sorted_discs[k][2]]])

(***************************************************************************)
(* The local state of one scan_library call.                               *)
(*   pc: "idle"     no call in progress                                    *)
(*       "root"     at the head of `for scan_path in paths`                *)
(*       "groups"   in the loop that generates the playlists               *)
(*       "files"    in the import loop, before get_game_by_path            *)
(*       "file_add" in the import loop, before add_game                    *)
(*       "m3us"     in the playlist loop, before get_game_by_path          *)
(*       "m3u_add"  in the playlist loop, before add_game                  *)
(* log, epoch0, fresh, clean and alone record the call's history for the   *)
(* properties; the code has no such fields.                                *)
(***************************************************************************)
ZeroResult ==
    [games_found |-> 0, games_added |-> 0, games_updated |-> 0, errors |-> <<>>]

IdleScan ==
    [pc |-> "idle", paths |-> <<>>, idx |-> 0,
     discovered_files |-> <<>>, existing_m3u_files |-> {},
     multi_disc_groups |-> GroupsOf(<<>>), todo |-> {},
     generated_m3u_files |-> {}, covered_disc_files |-> {},
     fi |-> 0, m3u_todo |-> {}, cur |-> None, rom_path |-> None,
     result |-> ZeroResult, log |-> <<>>,
     epoch0 |-> 0, fresh |-> FALSE, clean |-> TRUE, alone |-> TRUE]

Libraries == UNION {[1..n -> RootPaths] : n \in 1..MaxRoots}

\* the arguments of a call: the folders of the library, each with an override
\* or none
ScanPath(path, platform_id) == [path |-> path, platform_id |-> platform_id]
PathLists ==
    {[k \in 1..Len(library) |-> ScanPath(library[k], o[k])] :
        o \in {f \in [1..Len(library) -> {None, "saturn"}] :
                  \A k \in 1..Len(library) : f[k] \in Overrides[library[k]]}}

\* an entry of the log: what happened, to which path, in which pass of the
\* loop over the scan paths
Event(ev, path, idx) == [ev |-> ev, path |-> path, idx |-> idx]

Found(s) == [s EXCEPT !.result.games_found = @ + 1]
Added(s) == [s EXCEPT !.result.games_added = @ + 1]
Updated(s) == [s EXCEPT !.result.games_updated = @ + 1]
Error(s, text) == [s EXCEPT !.result.errors = Append(@, text)]
Logged(s, ev, path) == [s EXCEPT !.log = Append(@, Event(ev, path, s.idx))]
Faulty(s) == [s EXCEPT !.clean = FALSE]

\* the end of one pass of `for scan_path in paths`: the locals go out of scope
NextRoot(s) ==
    [s EXCEPT !.pc = "root", !.idx = @ + 1,
              !.discovered_files = <<>>, !.existing_m3u_files = {},
              !.multi_disc_groups = GroupsOf(<<>>), !.todo = {},
              !.generated_m3u_files = {}, !.covered_disc_files = {},
              !.fi = 0, !.m3u_todo = {}, !.cur = None, !.rom_path = None]

RECURSIVE Settle(_)
\* run on to the next statement that reads or writes the disk or the table
Settle(s) ==
    CASE s.pc = "groups" /\ s.todo = {} ->
           Settle([s EXCEPT !.pc = "files", !.fi = 1,
                            !.covered_disc_files = CoveredBy(s.multi_disc_groups)])
      [] s.pc = "files" /\ s.fi > Len(s.discovered_files) ->
           Settle([s EXCEPT !.pc = "m3us", !.m3u_todo = s.generated_m3u_files])
      [] s.pc = "files" /\ s.fi <= Len(s.discovered_files)
                        /\ s.discovered_files[s.fi].path \in s.covered_disc_files ->
           Settle([s EXCEPT !.fi = @ + 1])
      [] s.pc = "m3us" /\ s.m3u_todo = {} -> NextRoot(s)
      [] OTHER -> s

Running(c) == scan[c].pc # "idle"
AllIdle == \A c \in Callers : ~Running(c)

\* what the properties keep of a call that returned Err(String): there is no
\* ScanResult
Refused(paths, log, text) ==
    [returned |-> "Err", error |-> text, paths |-> paths, log |-> log,
     fresh |-> (games = {}), clean |-> FALSE, alone |-> AllIdle,
     epoch0 |-> epoch, epoch1 |-> epoch]

(***************************************************************************)
(* The steps of scan_library.                                              *)
(***************************************************************************)
Begin(c, paths) ==
    /\ ~Running(c)
    /\ started < MaxScans
    /\ started' = started + 1
    /\ scan' = [d \in Callers |->
                  IF d = c
                  THEN [IdleScan EXCEPT !.pc = "root", !.paths = paths, !.idx = 1,
                                        !.epoch0 = epoch, !.fresh = (games = {}),
                                        !.alone = AllIdle]
                  ELSE IF Running(d) THEN [scan[d] EXCEPT !.alone = FALSE]
                  ELSE scan[d]]
    /\ UNCHANGED <<library, disk, games, nextId, hist, epoch, faults, call, tracking>>

\* scan_library called while no other call runs
StartScan(c, paths) == AllIdle /\ Begin(c, paths)

\* scan_library called until it has returned once
StartOrRestart(c, paths) == hist = <<>> /\ StartScan(c, paths)

\* scan_library called while another call may be running
StartConcurrentScan(c, paths) == Begin(c, paths)

AtRoot(c) == scan[c].pc = "root" /\ scan[c].idx <= Len(scan[c].paths)
scan_path(c) == scan[c].paths[scan[c].idx]

\* `break` in the place of `continue`
SkipMissingRootAndStop(c) ==
    /\ AtRoot(c)
    /\ ~exists(scan_path(c).path)
    /\ scan' = [scan EXCEPT ![c] =
          [Logged(Error(@, "Path does not exist: " \o scan_path(c).path),
                  "missing_root", scan_path(c).path)
             EXCEPT !.idx = Len(scan[c].paths) + 1]]
    /\ UNCHANGED <<library, disk, games, nextId, hist, epoch, started, faults, call, tracking>>

\* if !path.exists() { errors.push(..); continue; }
SkipMissingRoot(c) ==
    /\ AtRoot(c)
    /\ ~exists(scan_path(c).path)
    /\ scan' = [scan EXCEPT ![c] =
          [Logged(Error(@, "Path does not exist: " \o scan_path(c).path),
                  "missing_root", scan_path(c).path)
             EXCEPT !.idx = @ + 1]]
    /\ UNCHANGED <<library, disk, games, nextId, hist, epoch, started, faults, call, tracking>>

\* phase 1, and the grouping at the head of phase 2
Discover(c) ==
    /\ AtRoot(c)
    /\ exists(scan_path(c).path)
    /\ LET entries == Walk(scan_path(c).path)
           discovered == Collect(entries, 1, scan_path(c).platform_id)
           groups == GroupsOf(discovered)
       IN  scan' = [scan EXCEPT ![c] =
              Settle([Logged(@, "walk", scan_path(c).path)
                        EXCEPT !.pc = "groups",
                               !.discovered_files = discovered,
                               !.existing_m3u_files = ExistingM3u(entries),
                               !.multi_disc_groups = groups,
                               !.todo = {key \in DOMAIN groups : Len(groups[key]) > 1},
                               !.generated_m3u_files = {}])]
    /\ UNCHANGED <<library, disk, games, nextId, hist, epoch, started, faults, call, tracking>>

AtGroup(c, key) == scan[c].pc = "groups" /\ key \in scan[c].todo

\* the playlist written whether the walk saw one or not
GenerateAlways(c, key) ==
    /\ AtGroup(c, key)
    /\ scan' = [scan EXCEPT ![c] =
          Settle([Logged(@, "write", potential_m3u(key))
                    EXCEPT !.todo = @ \ {key},
                           !.generated_m3u_files = @ \cup {potential_m3u(key)}])]
    /\ disk' = WriteFile(disk, potential_m3u(key),
                         PlaylistContent(scan[c].multi_disc_groups[key]))
    /\ UNCHANGED <<library, games, nextId, hist, epoch, started, faults, call, tracking>>

\* the playlist is written and its row inserted in the same pass of the loop
\* over the groups
GenerateAndImport(c, key) ==
    /\ AtGroup(c, key)
    /\ LET m3u == potential_m3u(key)
           game == NewGame(<<c, nextId[c]>>, key[2], Resolved[m3u], "ps1")
       IN  /\ scan' = [scan EXCEPT ![c] =
                 Settle([Logged(Logged(@, "write", m3u), "added", m3u)
                           EXCEPT !.todo = @ \ {key},
                                  !.generated_m3u_files = @ \cup {m3u}])]
           /\ disk' = WriteFile(disk, m3u, PlaylistContent(scan[c].multi_disc_groups[key]))
           /\ games' = IF InsertAllowed(game) THEN games \cup {game} ELSE games
    /\ nextId' = [nextId EXCEPT ![c] = @ + 1]
    /\ UNCHANGED <<library, hist, epoch, started, faults, call, tracking>>

\* one pass of the loop over multi_disc_groups, for a group of more than one
\* disc: reuse the playlist that the walk saw, or write one
Generate(c, key) ==
    /\ AtGroup(c, key)
    /\ LET m3u == potential_m3u(key)
           reuse == m3u \in scan[c].existing_m3u_files
       IN  /\ scan' = [scan EXCEPT ![c] =
                 Settle([Logged(@, IF reuse THEN "reuse" ELSE "write", m3u)
                           EXCEPT !.todo = @ \ {key},
                                  !.generated_m3u_files = @ \cup {m3u}])]
           /\ disk' = IF reuse THEN disk
                      ELSE WriteFile(disk, m3u,
                                     PlaylistContent(scan[c].multi_disc_groups[key]))
    /\ UNCHANGED <<library, games, nextId, hist, epoch, started, faults, call, tracking>>

\* the error is pushed and the playlist is reconciled all the same
GenerateFailsButListed(c, key) ==
    /\ AtGroup(c, key)
    /\ faults < MaxFaults
    /\ potential_m3u(key) \notin scan[c].existing_m3u_files
    /\ faults' = faults + 1
    /\ scan' = [scan EXCEPT ![c] =
          Settle([Faulty(Logged(Error(@, "Failed to generate .m3u for " \o key[2]
                                         \o ": Failed to write .m3u file: io error"),
                                "write_failed", potential_m3u(key)))
                    EXCEPT !.todo = @ \ {key},
                           !.generated_m3u_files = @ \cup {potential_m3u(key)}])]
    /\ disk' = disk
    /\ UNCHANGED <<library, games, nextId, hist, epoch, started, call, tracking>>

\* std::fs::write fails: either it could not create the file, or it created
\* it and the write of the content failed, which leaves the file, empty
GenerateFails(c, key) ==
    /\ AtGroup(c, key)
    /\ faults < MaxFaults
    /\ potential_m3u(key) \notin scan[c].existing_m3u_files
    /\ faults' = faults + 1
    /\ scan' = [scan EXCEPT ![c] =
          Settle([Faulty(Logged(Error(@, "Failed to generate .m3u for " \o key[2]
                                         \o ": Failed to write .m3u file: io error"),
                                "write_failed", potential_m3u(key)))
                    EXCEPT !.todo = @ \ {key}])]
    /\ \E created \in BOOLEAN :
          disk' = IF created THEN WriteFile(disk, potential_m3u(key), "") ELSE disk
    /\ UNCHANGED <<library, games, nextId, hist, epoch, started, call, tracking>>

AtFile(c) == scan[c].pc = "files"
file(c) == scan[c].discovered_files[scan[c].fi]

\* an entry that is found gets the platform of this scan
QueryFileUpserts(c) ==
    /\ AtFile(c)
    /\ LET rom_path == canonicalize(file(c).path)
           s == Logged(Found(scan[c]), "found", file(c).path)
       IN  /\ scan' = [scan EXCEPT ![c] =
                 IF get_game_by_path(rom_path)
                 THEN Settle([Logged(Updated(s), "updated", file(c).path)
                                EXCEPT !.fi = @ + 1])
                 ELSE [s EXCEPT !.pc = "file_add", !.rom_path = rom_path]]
           /\ games' = {IF g.rom_path = rom_path
                        THEN [g EXCEPT !.platform_id = file(c).platform_id] ELSE g :
                           g \in games}
    /\ UNCHANGED <<library, disk, nextId, hist, epoch, started, faults, call, tracking>>

\* games_found += 1; canonicalize; get_game_by_path
QueryFile(c) ==
    /\ AtFile(c)
    /\ LET rom_path == canonicalize(file(c).path)
           s == Logged(Found(scan[c]), "found", file(c).path)
       IN  scan' = [scan EXCEPT ![c] =
              IF get_game_by_path(rom_path)
              THEN Settle([Logged(Updated(s), "updated", file(c).path)
                             EXCEPT !.fi = @ + 1])
              ELSE [s EXCEPT !.pc = "file_add", !.rom_path = rom_path]]
    /\ UNCHANGED <<library, disk, games, nextId, hist, epoch, started, faults, call, tracking>>

\* `?` on get_game_by_path: the call returns the Err
QueryFileAborts(c) ==
    /\ AtFile(c)
    /\ faults < MaxFaults
    /\ faults' = faults + 1
    /\ hist' = Append(hist, Refused(scan[c].paths,
                                    Append(scan[c].log,
                                           Event("query_failed", file(c).path, scan[c].idx)),
                                    "database is locked"))
    /\ scan' = [scan EXCEPT ![c] = IdleScan]
    /\ UNCHANGED <<library, disk, games, nextId, epoch, started, call, tracking>>

\* get_game_by_path returns Err
QueryFileFails(c) ==
    /\ AtFile(c)
    /\ faults < MaxFaults
    /\ faults' = faults + 1
    /\ scan' = [scan EXCEPT ![c] =
          Settle([Faulty(Logged(Error(Logged(Found(@), "found", file(c).path),
                                      "Database error for " \o file(c).path
                                         \o ": database is locked"),
                                "query_failed", file(c).path))
                    EXCEPT !.fi = @ + 1])]
    /\ UNCHANGED <<library, disk, games, nextId, hist, epoch, started, call, tracking>>

\* Database::add_game: the INSERT, which the table's constraints may refuse
add_game(game) == IF InsertAllowed(game) THEN games \cup {game} ELSE games

\* Game::new and add_game for a discovered file
AddFile(c) ==
    /\ scan[c].pc = "file_add"
    /\ LET game == NewGame(<<c, nextId[c]>>, Title[file(c).base_name],
                           scan[c].rom_path, file(c).platform_id)
       IN  /\ games' = add_game(game)
           /\ scan' = [scan EXCEPT ![c] =
                 Settle([(IF game \in add_game(game)
                          THEN Logged(Added(@), "added", file(c).path)
                          ELSE Logged(Error(@, "Failed to add " \o file(c).path
                                               \o ": UNIQUE constraint failed: games.rom_path"),
                                      "add_failed", file(c).path))
                           EXCEPT !.pc = "files", !.fi = @ + 1, !.rom_path = None])]
    /\ nextId' = [nextId EXCEPT ![c] = @ + 1]
    /\ UNCHANGED <<library, disk, hist, epoch, started, faults, call, tracking>>

\* add_game returns Err for another reason than a constraint
AddFileFails(c) ==
    /\ scan[c].pc = "file_add"
    /\ faults < MaxFaults
    /\ faults' = faults + 1
    /\ scan' = [scan EXCEPT ![c] =
          Settle([Faulty(Logged(Error(@, "Failed to add " \o file(c).path
                                         \o ": disk I/O error"),
                                "add_failed", file(c).path))
                    EXCEPT !.pc = "files", !.fi = @ + 1, !.rom_path = None])]
    /\ nextId' = [nextId EXCEPT ![c] = @ + 1]
    /\ UNCHANGED <<library, disk, games, hist, epoch, started, call, tracking>>

AtM3u(c, m3u_path) == scan[c].pc = "m3us" /\ m3u_path \in scan[c].m3u_todo

\* one pass of `for m3u_path in &generated_m3u_files`, up to get_game_by_path
QueryM3u(c, m3u_path) ==
    /\ AtM3u(c, m3u_path)
    /\ LET rom_path == canonicalize(m3u_path)
       IN  scan' = [scan EXCEPT ![c] =
              IF get_game_by_path(rom_path)
              THEN Settle([Logged(Updated(@), "updated", m3u_path)
                             EXCEPT !.m3u_todo = @ \ {m3u_path}])
              ELSE [@ EXCEPT !.pc = "m3u_add", !.cur = m3u_path,
                             !.rom_path = rom_path]]
    /\ UNCHANGED <<library, disk, games, nextId, hist, epoch, started, faults, call, tracking>>

\* games_found += 1 ahead of the query, as in the loop over the files
QueryM3uFailsCounted(c, m3u_path) ==
    /\ AtM3u(c, m3u_path)
    /\ faults < MaxFaults
    /\ faults' = faults + 1
    /\ scan' = [scan EXCEPT ![c] =
          Settle([Faulty(Logged(Error(Found(@), "Database error for " \o m3u_path
                                         \o ": database is locked"),
                                "query_failed", m3u_path))
                    EXCEPT !.m3u_todo = @ \ {m3u_path}])]
    /\ UNCHANGED <<library, disk, games, nextId, hist, epoch, started, call, tracking>>

\* get_game_by_path returns Err for a playlist
QueryM3uFails(c, m3u_path) ==
    /\ AtM3u(c, m3u_path)
    /\ faults < MaxFaults
    /\ faults' = faults + 1
    /\ scan' = [scan EXCEPT ![c] =
          Settle([Faulty(Logged(Error(@, "Database error for " \o m3u_path
                                         \o ": database is locked"),
                                "query_failed", m3u_path))
                    EXCEPT !.m3u_todo = @ \ {m3u_path}])]
    /\ UNCHANGED <<library, disk, games, nextId, hist, epoch, started, call, tracking>>

\* the playlist loop falls back to another platform
DefaultSaturn == "saturn"

DefaultM3uPlatform == "ps1"

\* the platform id of a playlist entry
M3uPlatform(rom_path) ==
    IF Detected[rom_path] # None THEN Detected[rom_path] ELSE DefaultM3uPlatform

\* Game::new and add_game for a playlist
AddM3u(c) ==
    /\ scan[c].pc = "m3u_add"
    /\ LET m3u_path == scan[c].cur
           game == NewGame(<<c, nextId[c]>>, Title[FileStem[m3u_path]],
                           scan[c].rom_path, M3uPlatform(scan[c].rom_path))
       IN  /\ games' = add_game(game)
           /\ scan' = [scan EXCEPT ![c] =
                 Settle([(IF game \in add_game(game)
                          THEN Logged(Logged(Found(Added(@)), "added", m3u_path),
                                      "found", m3u_path)
                          ELSE Logged(Error(@, "Failed to add " \o m3u_path
                                               \o ": UNIQUE constraint failed: games.rom_path"),
                                      "add_failed", m3u_path))
                           EXCEPT !.pc = "m3us", !.m3u_todo = @ \ {m3u_path},
                                  !.cur = None, !.rom_path = None])]
    /\ nextId' = [nextId EXCEPT ![c] = @ + 1]
    /\ UNCHANGED <<library, disk, hist, epoch, started, faults, call, tracking>>

AddM3uFails(c) ==
    /\ scan[c].pc = "m3u_add"
    /\ faults < MaxFaults
    /\ faults' = faults + 1
    /\ scan' = [scan EXCEPT ![c] =
          Settle([Faulty(Logged(Error(@, "Failed to add " \o scan[c].cur
                                         \o ": disk I/O error"),
                                "add_failed", scan[c].cur))
                    EXCEPT !.pc = "m3us", !.m3u_todo = @ \ {scan[c].cur},
                           !.cur = None, !.rom_path = None])]
    /\ nextId' = [nextId EXCEPT ![c] = @ + 1]
    /\ UNCHANGED <<library, disk, games, hist, epoch, started, call, tracking>>

\* what the properties keep of a call that returned
Summary(s) ==
    [returned |-> "Ok", paths |-> s.paths, result |-> s.result, log |-> s.log,
     fresh |-> s.fresh, clean |-> s.clean, alone |-> s.alone,
     epoch0 |-> s.epoch0, epoch1 |-> epoch]

\* state.db.get_all_platforms().map_err(|e| e.to_string())? returns Err: the
\* call is over before it has looked at a path
ScanFails(c, paths) ==
    /\ AllIdle
    /\ started < MaxScans
    /\ faults < MaxFaults
    /\ started' = started + 1
    /\ faults' = faults + 1
    /\ hist' = Append(hist, Refused(paths, <<Event("platforms_failed", None, 0)>>,
                                    "database is locked"))
    /\ UNCHANGED <<library, disk, games, nextId, scan, epoch, call, tracking>>

\* Ok(result)
Return(c) ==
    /\ scan[c].pc = "root"
    /\ scan[c].idx > Len(scan[c].paths)
    /\ hist' = Append(hist, Summary(scan[c]))
    /\ scan' = [scan EXCEPT ![c] = IdleScan]
    /\ UNCHANGED <<library, disk, games, nextId, epoch, started, faults, call, tracking>>

(***************************************************************************)
(* The environment.                                                        *)
(***************************************************************************)
\* the application dies in the middle of its scans and is started again
Crash ==
    /\ ~AllIdle
    /\ epoch < MaxDisturbances
    /\ epoch' = epoch + 1
    /\ scan' = [c \in Callers |-> IdleScan]
    /\ UNCHANGED <<library, disk, games, nextId, hist, started, faults, call, tracking>>

ContentOf(path) == IF Ext(path) = ".m3u" THEN UserContent ELSE RomContent

\* somebody puts a file on the disk while no scan runs
PutFile(path) ==
    /\ AllIdle
    /\ epoch < MaxDisturbances
    /\ path \notin DOMAIN disk
    /\ epoch' = epoch + 1
    /\ disk' = WriteFile(disk, path, ContentOf(path))
    /\ UNCHANGED <<library, games, nextId, scan, hist, started, faults, call, tracking>>

(***************************************************************************)
(* Specifications.                                                         *)
(***************************************************************************)
InitialDisks ==
    {[path \in S |-> ContentOf(path)] :
        S \in {T \in SUBSET Universe : Cardinality(T) <= MaxFiles}}

\* the application has started on a new database: the table is empty and no
\* command has run
Started ==
    /\ games = {}
    /\ nextId = [c \in Callers |-> 0]
    /\ scan = [c \in Callers |-> IdleScan]
    /\ hist = <<>>
    /\ epoch = 0
    /\ started = 0
    /\ faults = 0
    /\ active_sessions = Nothing       \* lib.rs: Mutex::new(HashMap::new())
    /\ play_sessions = {}
    /\ total_play_time_seconds = Nothing
    /\ clock = 0
    /\ command = [c \in Callers |-> NoCommand]
    /\ journal = <<>>

Init ==
    /\ library \in Libraries
    /\ disk \in InitialDisks
    /\ Started
    /\ call = NoCall

Step(c) ==
    \/ SkipMissingRoot(c)
    \/ Discover(c)
    \/ \E key \in scan[c].todo : Generate(c, key)
    \/ QueryFile(c)
    \/ AddFile(c)
    \/ \E m3u_path \in scan[c].m3u_todo : QueryM3u(c, m3u_path)
    \/ AddM3u(c)
    \/ Return(c)

Failure(c) ==
    \/ \E key \in scan[c].todo : GenerateFails(c, key)
    \/ QueryFileFails(c)
    \/ AddFileFails(c)
    \/ \E m3u_path \in scan[c].m3u_todo : QueryM3uFails(c, m3u_path)
    \/ AddM3uFails(c)

\* one scan at a time, every call succeeding; files may appear between scans
Next ==
    \/ \E paths \in PathLists : StartScan("c1", paths)
    \/ Step("c1")
    \/ \E path \in Universe : PutFile(path)

Spec == Init /\ [][Next]_vars

\* one scan, started again after a crash; calls may fail
NextFaults ==
    \/ \E paths \in PathLists : StartOrRestart("c1", paths)
    \/ \E paths \in PathLists : ScanFails("c1", paths)
    \/ Step("c1")
    \/ Failure("c1")
    \/ Crash

SpecFaults == Init /\ [][NextFaults]_vars

\* two callers, whose scans may overlap; every call succeeds
NextConcurrent ==
    \/ \E paths \in PathLists : StartConcurrentScan("c1", paths)
    \/ \E paths \in PathLists : started > 0 /\ StartConcurrentScan("c2", paths)
    \/ \E c \in Callers : Step(c)

\* the overlapping scans are of a library of one folder
InitConcurrent == Init /\ Len(library) = 1

SpecConcurrent == InitConcurrent /\ [][NextConcurrent]_vars

(***************************************************************************)
(* The helper functions, applied on their own to arguments drawn from a    *)
(* finite set: the call is pending, then it has returned.                  *)
(***************************************************************************)
Pending(fn, arg) == [fn |-> fn, arg |-> arg, done |-> FALSE]
Returned(c, ret) == [fn |-> c.fn, arg |-> c.arg, done |-> TRUE, ret |-> ret]

\* nothing on disk, nothing in the table, no scan
InitHelpers ==
    /\ library = <<"/roms">>
    /\ disk = [path \in {} |-> RomContent]
    /\ Started

\* folder names as users give them, and a file name
HintSegments ==
    {"roms", "PS2", "xbox 360", "snes_roms", "my_nes", "wiiu", "Nintendo DS", "Game.iso"}

HinterArgs ==
    {[segments |-> s, separator |-> p] :
        s \in UNION {[1..n -> HintSegments] : n \in 1..MaxSegments}, p \in Separators}

RECURSIVE PathOf(_, _)
\* the path with these segments
PathOf(segments, separator) ==
    IF Len(segments) = 1 THEN segments[1]
    ELSE segments[1] \o separator \o PathOf(Tail(segments), separator)

InitHinter ==
    /\ InitHelpers
    /\ call \in {Pending("detect_platform_from_path", arg) : arg \in HinterArgs}

DetectPlatform ==
    /\ call.fn = "detect_platform_from_path"
    /\ ~call.done
    /\ call' = Returned(call, detect_platform_from_path(
                                  PathOf(call.arg.segments, call.arg.separator)))
    /\ UNCHANGED <<library, disk, games, nextId, scan, hist, epoch, started, faults, tracking>>

SpecHinter == InitHinter /\ [][DetectPlatform]_vars

\* the keywords of the hint table
Keywords ==
    UNION {{platform_hints[h][2][w] : w \in 1..Len(platform_hints[h][2])} :
              h \in 1..Len(platform_hints)}

\* the paths with a keyword for their only segment that is not empty: the
\* keyword alone, under the root, with a separator after it
KeywordArgs ==
    {[segments |-> s, separator |-> p] :
        s \in UNION {{<<k>>, <<"", k>>, <<k, "">>, <<"", k, "">>} : k \in Keywords},
        p \in Separators}

InitKeywords ==
    /\ InitHelpers
    /\ call \in {Pending("detect_platform_from_path", arg) : arg \in KeywordArgs}

SpecKeywords == InitKeywords /\ [][DetectPlatform]_vars

\* the file stems of discs: a title, and after it the disc number in one of
\* the ways of writing it
DiscTitles == {"Game", "Final Fantasy VII", "Mega Man X4", "Spider-Man 2"}

DiscForms == {
    <<" (Disc ", ")">>, <<" (Disc ", " of 4)">>, <<" [disc ", "]">>,
    <<" (Disc 0", ")">>, <<"(DISK ", ")">>, <<" (CD", ")">>, <<" [CD ", "]">>,
    <<" - Disc ", "">>, <<"-disk", "">>, <<" - CD", "">>,
    <<" Disc ", "">>, <<" disk", "">>, <<" CD ", "">>,
    <<"_Disc", "">>, <<"_cd", "">> }

RECURSIVE Decimal(_)
\* the number as the file name has it
Decimal(n) ==
    IF n < 10 THEN Digits[n + 1]
    ELSE Decimal(n \div 10) \o Digits[(n % 10) + 1]

StemOf(arg) == arg.title \o arg.form[1] \o Decimal(arg.n) \o arg.form[2]

InitDiscs ==
    /\ InitHelpers
    /\ call \in {Pending("get_disc_number", [title |-> title, form |-> form, n |-> n]) :
                    title \in DiscTitles, form \in DiscForms, n \in 1..MaxDiscs}

\* what the walk does with a stem: get_disc_number, and get_base_game_name
\* when there is a number
DetectDisc ==
    /\ call.fn = "get_disc_number"
    /\ ~call.done
    /\ LET stem == StemOf(call.arg)
           disc_number == get_disc_number(stem)
       IN  call' = Returned(call,
                      [disc_number |-> disc_number,
                       base_name |-> IF disc_number # NoNumber
                                     THEN get_base_game_name(stem)
                                     ELSE stem])
    /\ UNCHANGED <<library, disk, games, nextId, scan, hist, epoch, started, faults, tracking>>

SpecDiscs == InitDiscs /\ [][DetectDisc]_vars

\* the names given to clean_rom_title: names as ROM sets have them, and every
\* string of up to MaxTitleLen letters, spaces and brackets
RomNames == {
    "Mario (USA) [!] {beta}  2",
    "Game (Disc 1) (Europe)",
    " [T+Eng] Zelda{v1.1}",
    "A (b [c) d] e",
    "({[x]})",
    "a ) b ( c" }

TitleChars == {"a", " ", "(", ")", "[", "]", "{", "}"}

RECURSIVE Strings(_)
\* the strings of n characters
Strings(n) ==
    IF n = 0 THEN {""}
    ELSE {s \o c : s \in Strings(n - 1), c \in TitleChars}

InitTitles ==
    /\ InitHelpers
    /\ call \in {Pending("clean_rom_title", title) :
                    title \in RomNames \cup UNION {Strings(n) : n \in 0..MaxTitleLen}}

CleanTitle ==
    /\ call.fn = "clean_rom_title"
    /\ ~call.done
    /\ call' = Returned(call, clean_rom_title(call.arg))
    /\ UNCHANGED <<library, disk, games, nextId, scan, hist, epoch, started, faults, tracking>>

SpecTitles == InitTitles /\ [][CleanTitle]_vars

\* a folder of cue sheets with their track images, and of disc images in
\* folders named after a platform
Shelf == {
    "/roms/Track.bin",
    "/roms/Track.cue",
    "/roms/genesis/Sonic.bin",
    "/roms/genesis/Sonic.CUE",
    "/roms/ps2/Game.iso",
    "/roms/ps3/Game.iso",
    "/roms/Game.iso",
    "/roms/Mario (USA).sfc",
    "/roms/Game (Disc 1).cue",
    "/roms/Game (Disc 2).cue",
    "/roms/Game (Disc 1).chd" }

InitDiscovery ==
    /\ library \in {l \in Libraries : Len(l) = 1}
    /\ disk \in {[path \in S |-> ContentOf(path)] :
                    S \in {T \in SUBSET Shelf : Cardinality(T) <= MaxFiles}}
    /\ Started
    /\ call = NoCall

\* one scan at a time of the one folder, every call succeeding
NextDiscovery ==
    \/ \E paths \in PathLists : StartScan("c1", paths)
    \/ Step("c1")

SpecDiscovery == InitDiscovery /\ [][NextDiscovery]_vars

(***************************************************************************)
(* The commands on the games of the catalog: add_game, launch_game,        *)
(* launch_game_with_emulator, end_game_session (commands/mod.rs) and       *)
(* delete_games_batch (db.rs).                                             *)
(***************************************************************************)
\* what add_game is given
GameInputs == {
    [title |-> "Game", rom_path |-> "/roms/Game.iso", platform_id |-> "ps2"],
    [title |-> "Mario", rom_path |-> "/roms/Mario (USA).sfc", platform_id |-> "snes"] }

\* an id that no row has
NoSuchGame == <<"nobody", 0>>

\* the ids a command is called with
GameArgs == {g.id : g \in games} \cup {NoSuchGame}

\* Database::get_game: is there a row with this id?
get_game(id) == \E g \in games : g.id = id

\* the column total_play_time_seconds of the row, 0 as Game::new sets it
PlayTime(id) ==
    IF id \in DOMAIN total_play_time_seconds THEN total_play_time_seconds[id] ELSE 0

\* how many commands named in fns have been called
Calls(fns) ==
    Cardinality({i \in 1..Len(journal) : journal[i].fn \in fns})
    + Cardinality({c \in Callers : command[c].fn \in fns})

\* launch_game and launch_game_with_emulator look up the game and the
\* emulator and call launch_game_with_emulator_internal
LaunchCommands == {"launch_game"}

\* what becomes of the emulator: the process is spawned; Ok with success
\* false (no emulator configured, arguments not parsed, spawn failed); Err
\* (emulator not found, no executable in the bundle)
LaunchOutcomes == {"spawned", "not_launched", "refused"}

\* PlaySession::new
NewPlaySession(id, game_id) ==
    [id |-> id, game_id |-> game_id, start_time |-> clock,
     end_time |-> NoNumber,       \* Option<String>: None
     duration_seconds |-> 0]

\* Mutex<HashMap>: nobody else holds the lock of active_sessions
SessionsUnlocked(c) ==
    \A d \in Callers \ {c} : command[d].pc \notin {"record", "credit"}

\* the command returns
Journal(entry) == journal' = Append(journal, entry)

\* command add_game: Game::new, then Database::add_game
AddGame(c, input) ==
    /\ command[c] = NoCommand
    /\ Cardinality(games) < MaxGames
    /\ LET game == NewGame(<<c, nextId[c]>>, input.title, input.rom_path,
                           input.platform_id)
       IN  /\ games' = add_game(game)
           /\ nextId' = IF InsertAllowed(game)
                        THEN [nextId EXCEPT ![c] = @ + 1]
                        ELSE nextId      \* the id drawn is of no row
    /\ UNCHANGED <<library, disk, scan, hist, epoch, started, faults, call, tracking>>

\* launch_game, launch_game_with_emulator up to create_play_session
Launch(c, fn, game_id, outcome) ==
    /\ command[c] = NoCommand
    /\ Calls(LaunchCommands) < MaxLaunches
    /\ IF get_game(game_id) /\ outcome = "spawned"
       THEN /\ play_sessions' = play_sessions \cup
                                  {NewPlaySession(<<c, nextId[c]>>, game_id)}
            /\ nextId' = [nextId EXCEPT ![c] = @ + 1]
            /\ command' = [command EXCEPT ![c] =
                  [fn |-> fn, pc |-> "track", game_id |-> game_id,
                   session_id |-> <<c, nextId[c]>>, began |-> Len(journal)]]
       ELSE \* Err("Game not found"), Err of the emulator, or success: false
            UNCHANGED <<play_sessions, nextId, command>>
    /\ UNCHANGED <<library, disk, games, scan, hist, epoch, started, faults, call,
                   active_sessions, total_play_time_seconds, clock, journal>>

\* the emulator is spawned and create_play_session fails: eprintln!, no row
LaunchUnrecorded(c, fn, game_id) ==
    /\ command[c] = NoCommand
    /\ Calls(LaunchCommands) < MaxLaunches
    /\ faults < MaxFaults
    /\ get_game(game_id)
    /\ faults' = faults + 1
    /\ nextId' = [nextId EXCEPT ![c] = @ + 1]
    /\ command' = [command EXCEPT ![c] =
          [fn |-> fn, pc |-> "track", game_id |-> game_id,
           session_id |-> <<c, nextId[c]>>, began |-> Len(journal)]]
    /\ UNCHANGED <<library, disk, games, scan, hist, epoch, started, call,
                   active_sessions, play_sessions, total_play_time_seconds, clock,
                   journal>>

\* the key is given a value: HashMap::insert
Insert(map, key, value) == (key :> value) @@ map

\* the key stays, as after HashMap::get
Kept(map, key) == map

\* the map without the key: what HashMap::remove leaves
Without(map, key) == [k \in DOMAIN map \ {key} |-> map[k]]

\* launch_game_with_emulator_internal: "Store active session", and return
Track(c) ==
    /\ command[c].pc = "track"
    /\ SessionsUnlocked(c)
    /\ active_sessions' = Insert(active_sessions, command[c].game_id,
          [session_id |-> command[c].session_id, game_id |-> command[c].game_id,
           start_time |-> clock])
    /\ Journal([fn |-> command[c].fn, game_id |-> command[c].game_id,
                began |-> command[c].began, session_id |-> command[c].session_id,
                ret |-> "Ok", success |-> TRUE])
    /\ command' = [command EXCEPT ![c] = NoCommand]
    /\ UNCHANGED <<library, disk, games, nextId, scan, hist, epoch, started, faults,
                   call, play_sessions, total_play_time_seconds, clock>>

\* what end_game_session returns with
Ended(c, game_id, began, session_id, seconds, ret) ==
    [fn |-> "end_game_session", game_id |-> game_id, began |-> began,
     session_id |-> session_id, seconds |-> seconds, ret |-> ret]

\* end_game_session: lock, sessions.remove, and the duration of the session;
\* with no session for the game it returns Ok
Take(c, game_id) ==
    /\ command[c] = NoCommand
    /\ Calls({"end_game_session"}) < MaxEnds
    /\ SessionsUnlocked(c)
    /\ IF game_id \in DOMAIN active_sessions
       THEN /\ active_sessions' = Without(active_sessions, game_id)
            /\ command' = [command EXCEPT ![c] =
                  [fn |-> "end_game_session", pc |-> "record", game_id |-> game_id,
                   session_id |-> active_sessions[game_id].session_id,
                   end_time |-> clock,
                   duration |-> clock - active_sessions[game_id].start_time,
                   began |-> Len(journal)]]
            /\ UNCHANGED journal
       ELSE /\ Journal(Ended(c, game_id, Len(journal), NoNumber, 0, "Ok"))
            /\ UNCHANGED <<active_sessions, command>>
    /\ UNCHANGED <<library, disk, games, nextId, scan, hist, epoch, started, faults,
                   call, play_sessions, total_play_time_seconds, clock>>

\* Database::end_play_session: UPDATE play_sessions ... WHERE id = ?3
end_play_session(session_id, end_time, duration_seconds) ==
    {IF s.id = session_id
     THEN [s EXCEPT !.end_time = Some(end_time),
                    !.duration_seconds = duration_seconds]
     ELSE s : s \in play_sessions}

\* Database::update_game_play_time: UPDATE games ... WHERE id = ?2
update_game_play_time(id, additional_seconds) ==
    IF get_game(id)
    THEN Insert(total_play_time_seconds, id, PlayTime(id) + additional_seconds)
    ELSE total_play_time_seconds

\* end_game_session: "End the play session"
Record(c) ==
    /\ command[c].pc = "record"
    /\ play_sessions' = end_play_session(command[c].session_id, command[c].end_time,
                                         command[c].duration)
    /\ command' = [command EXCEPT ![c].pc = "credit"]
    /\ UNCHANGED <<library, disk, games, nextId, scan, hist, epoch, started, faults,
                   call, active_sessions, total_play_time_seconds, clock, journal>>

\* end_game_session: "Update game's total play time", unlock and Ok(())
Credit(c) ==
    /\ command[c].pc = "credit"
    /\ total_play_time_seconds' =
          update_game_play_time(command[c].game_id, command[c].duration)
    /\ Journal(Ended(c, command[c].game_id, command[c].began, command[c].session_id,
                     command[c].duration, "Ok"))
    /\ command' = [command EXCEPT ![c] = NoCommand]
    /\ UNCHANGED <<library, disk, games, nextId, scan, hist, epoch, started, faults,
                   call, active_sessions, play_sessions, clock>>

\* end_play_session or update_game_play_time fails: map_err and `?`
EndFails(c) ==
    /\ command[c].pc \in {"record", "credit"}
    /\ faults < MaxFaults
    /\ faults' = faults + 1
    /\ Journal(Ended(c, command[c].game_id, command[c].began, command[c].session_id,
                     0, "Err"))
    /\ command' = [command EXCEPT ![c] = NoCommand]
    /\ UNCHANGED <<library, disk, games, nextId, scan, hist, epoch, started, call,
                   active_sessions, play_sessions, total_play_time_seconds, clock>>

\* a second passes
Tick ==
    /\ clock < MaxClock
    /\ clock' = clock + 1
    /\ UNCHANGED <<library, disk, games, nextId, scan, hist, epoch, started, faults,
                   call, active_sessions, play_sessions, total_play_time_seconds,
                   command, journal>>

\* the commands of one caller on the games
SessionCommand(c) ==
    \/ \E fn \in LaunchCommands, game_id \in GameArgs, outcome \in LaunchOutcomes :
          Launch(c, fn, game_id, outcome)
    \/ Track(c)
    \/ \E game_id \in GameArgs : Take(c, game_id)
    \/ Record(c)
    \/ Credit(c)

\* games are added, launched and ended by two callers whose commands may
\* overlap; every call succeeds
NextSessions ==
    \/ \E input \in GameInputs : AddGame("c1", input)
    \/ \E c \in Callers : SessionCommand(c)
    \/ Tick

InitSessions == InitHelpers /\ call = NoCall

SpecSessions == InitSessions /\ [][NextSessions]_vars

\* one caller, whose calls of the database may fail
NextSessionFaults ==
    \/ \E input \in GameInputs : AddGame("c1", input)
    \/ SessionCommand("c1")
    \/ \E fn \in LaunchCommands, game_id \in GameArgs : LaunchUnrecorded("c1", fn, game_id)
    \/ EndFails("c1")
    \/ Tick

SpecSessionFaults == InitSessions /\ [][NextSessionFaults]_vars

RECURSIVE delete_loop(_, _, _)
\* Database::delete_games_batch, the loop: DELETE FROM games WHERE id = ?1 for
\* each id in turn, every statement on its own; deleted adds up the rows
delete_loop(table, ids, deleted) ==
    IF ids = <<>> THEN [table |-> table, deleted |-> deleted]
    ELSE LET rows == {g \in table : g.id = Head(ids)}
         IN  delete_loop(table \ rows, Tail(ids), deleted + Cardinality(rows))

\* the lists of ids delete_games_batch is given
IdLists == UNION {[1..n -> GameArgs] : n \in 1..MaxBatch}

\* Database::delete_games_batch, every statement succeeding: Ok(deleted)
DeleteGamesBatch(ids) ==
    /\ Calls({"delete_games_batch"}) < MaxDeletes
    /\ games' = delete_loop(games, ids, 0).table
    /\ Journal([fn |-> "delete_games_batch", ids |-> ids, ret |-> "Ok",
                deleted |-> delete_loop(games, ids, 0).deleted])
    /\ UNCHANGED <<library, disk, nextId, scan, hist, epoch, started, faults, call,
                   active_sessions, play_sessions, total_play_time_seconds, clock,
                   command>>

\* Database::delete_games_batch, the statement for ids[k] failing: `?` returns
\* the error after the statements before it
DeleteGamesBatchFails(ids, k) ==
    /\ Calls({"delete_games_batch"}) < MaxDeletes
    /\ k \in 1..Len(ids)
    /\ faults < MaxFaults
    /\ faults' = faults + 1
    /\ games' = delete_loop(games, SubSeq(ids, 1, k - 1), 0).table
    /\ Journal([fn |-> "delete_games_batch", ids |-> ids, ret |-> "Err",
                deleted |-> 0])
    /\ UNCHANGED <<library, disk, nextId, scan, hist, epoch, started, call,
                   active_sessions, play_sessions, total_play_time_seconds, clock,
                   command>>

\* games are added and deleted in batches; a DELETE may fail
NextDeletes ==
    \/ \E input \in GameInputs : AddGame("c1", input)
    \/ \E ids \in IdLists : DeleteGamesBatch(ids)
    \/ \E ids \in IdLists, k \in 1..MaxBatch : DeleteGamesBatchFails(ids, k)

SpecDeletes == InitSessions /\ [][NextDeletes]_vars

(***************************************************************************)
(* The metadata client (scraper/igdb.rs): the platform table and the       *)
(* request that search_games builds.                                       *)
(***************************************************************************)
\* get_igdb_platform_id: the pairs the HashMap is collected from
mapping == <<
    <<"nes", 18>>, <<"famicom", 99>>, <<"snes", 19>>, <<"n64", 4>>,
    <<"gamecube", 21>>, <<"wii", 5>>, <<"wiiu", 41>>, <<"switch", 130>>,
    <<"gb", 33>>, <<"gbc", 22>>, <<"gba", 24>>, <<"nds", 20>>, <<"3ds", 37>>,
    <<"virtualboy", 87>>,
    <<"ps1", 7>>, <<"ps2", 8>>, <<"ps3", 9>>, <<"ps4", 48>>, <<"psp", 38>>,
    <<"vita", 46>>,
    <<"genesis", 29>>, <<"megadrive", 29>>, <<"sms", 64>>, <<"gamegear", 35>>,
    <<"saturn", 32>>, <<"dreamcast", 23>>, <<"segacd", 78>>, <<"32x", 30>>,
    <<"xbox", 11>>, <<"xbox360", 12>>, <<"xboxone", 49>>,
    <<"atari2600", 59>>, <<"atari7800", 60>>, <<"atarijaguar", 62>>,
    <<"atarilynx", 61>>,
    <<"neogeo", 80>>, <<"neogeocd", 136>>, <<"ngp", 119>>, <<"ngpc", 120>>,
    <<"pce", 86>>, <<"tg16", 86>>, <<"pcfx", 274>>,
    <<"arcade", 52>>, <<"dos", 13>>, <<"pc", 6>>, <<"3do", 50>>,
    <<"wonderswan", 57>>, <<"wonderswancolor", 123>>, <<"msx", 27>>,
    <<"msx2", 53>>, <<"coleco", 68>>, <<"intellivision", 67>> >>

\* the key is looked up whatever its case
get_ignoring_case(pairs, key) ==
    LET at == {i \in 1..Len(pairs) : pairs[i][1] = to_lowercase(key)}
    IN  IF at = {} THEN NoNumber
        ELSE Some(pairs[CHOOSE i \in at : \A j \in at : j <= i][2])

\* HashMap::from_iter, then get and copied: the value of the last pair that
\* has the key
get(pairs, key) ==
    LET at == {i \in 1..Len(pairs) : pairs[i][1] = key}
    IN  IF at = {} THEN NoNumber
        ELSE Some(pairs[CHOOSE i \in at : \A j \in at : j <= i][2])

get_igdb_platform_id(platform_id) == get(mapping, platform_id)

RECURSIVE Escaped(_)
\* query.replace("\"", "\\\"")
Escaped(query) ==
    IF query = "" THEN ""
    ELSE (IF SubSeq(query, 1, 1) = "\"" THEN "\\\"" ELSE SubSeq(query, 1, 1))
         \o Escaped(SubSeq(query, 2, Len(query)))

\* search_games: the body of the request, from the query and Option<&str>
SearchBody(query, platform_id) ==
    LET igdb_platform_id == IF platform_id = None THEN NoNumber
                            ELSE get_igdb_platform_id(platform_id)
        fields == "fields name, summary, first_release_date, cover.image_id, "
                  \o "platforms.name, platforms;"
    IN  IF igdb_platform_id # NoNumber
        THEN "search \"" \o Escaped(query) \o "\"; " \o fields
             \o " where platforms = (" \o Decimal(igdb_platform_id[1]) \o "); limit 20;"
        ELSE "search \"" \o Escaped(query) \o "\"; " \o fields \o " limit 20;"

\* platform ids of the application, and strings that are no key of the table
PlatformArgs ==
    {mapping[i][1] : i \in 1..Len(mapping)}
    \cup {None, "unknown", "", "SNES", "Ps2", "snes ", " ps2", "ps5", "playstation2",
          "xbox 360", "nintendo64", "sega", "19"}

SearchQueries == {"Sonic", "Say \"Hi\""}

InitSearch ==
    /\ InitHelpers
    /\ call \in {Pending("search_games", [query |-> query, platform_id |-> platform_id]) :
                    query \in SearchQueries, platform_id \in PlatformArgs}

\* search_games up to the request: the platform number looked up and the body
SearchGames ==
    /\ call.fn = "search_games"
    /\ ~call.done
    /\ call' = Returned(call,
          [igdb_platform_id |-> IF call.arg.platform_id = None THEN NoNumber
                                ELSE get_igdb_platform_id(call.arg.platform_id),
           body |-> SearchBody(call.arg.query, call.arg.platform_id)])
    /\ UNCHANGED <<library, disk, games, nextId, scan, hist, epoch, started, faults,
                   tracking>>

SpecSearch == InitSearch /\ [][SearchGames]_vars

(***************************************************************************)
(* What the properties speak of, read off the disk rather than off the     *)
(* scan's variables.                                                       *)
(***************************************************************************)
\* the entries a walk from root meets now
Entries(root) ==
    IF root \in WalkRoots
    THEN {e \in {FullWalk[root][k] : k \in 1..Len(FullWalk[root])} :
            Resolved[e] \in DOMAIN disk}
    ELSE {}

\* the entries that become Discovered Files
Discoverable(root) == {e \in Entries(root) : IsCandidate(e)}

\* the Discovered Files with a disc number
DiscFiles(root) == {e \in Discoverable(root) : Annotated[e].disc_number # NoNumber}

\* the disc group of a disc file: same directory, same base title
DiscSet(e, root) ==
    {f \in DiscFiles(root) :
        Parent[f] = Parent[e] /\ Annotated[f].base_name = Annotated[e].base_name}

MultiDisc(root) == {e \in DiscFiles(root) : Cardinality(DiscSet(e, root)) >= 2}
LoneDisc(root) == {e \in DiscFiles(root) : Cardinality(DiscSet(e, root)) = 1}

\* <dir>/<base title>.m3u
PlaylistOf(e) == Parent[e] \o "/" \o Annotated[e].base_name \o ".m3u"
Playlists(root) == {PlaylistOf(e) : e \in MultiDisc(root)}

\* the importable items of a root: the singleton files and the playlists
Importable(root) == (Discoverable(root) \ MultiDisc(root)) \cup Playlists(root)

RomPaths == {g.rom_path : g \in games}
RowsAt(rom_path) == {g \in games : g.rom_path = rom_path}

\* the last Scan Result returned, while nothing has happened since
Last == hist[Len(hist)]
JustReturned ==
    /\ hist # <<>>
    /\ AllIdle
    /\ Last.epoch1 = epoch

\* the roots of a call that exist, as a sequence
Walked(paths) == SelectSeq(paths, LAMBDA sp : sp.path \in WalkRoots)

\* how many entries of a log are one of the events, for one path in one pass
Count(log, evs, path, idx) ==
    Cardinality({k \in 1..Len(log) :
        log[k].ev \in evs /\ log[k].path = path /\ log[k].idx = idx})

\* a call that nothing disturbed: no failure, no other call, no crash or
\* foreign file between its start and its return
Undisturbed(h) == h.clean /\ h.alone /\ h.epoch0 = h.epoch1

(***************************************************************************)
(* C1.  Scanning the same root twice, with nothing else touching the disk  *)
(* or the table in between and the table empty before the first scan: the  *)
(* second scan adds nothing and its gamesUpdated equals the first scan's   *)
(* gamesAdded.                                                             *)
(***************************************************************************)
SameRootTwice(i) ==
    /\ Len(hist[i].paths) = 1
    /\ hist[i + 1].paths = hist[i].paths
    /\ hist[i].fresh
    /\ Undisturbed(hist[i])
    /\ Undisturbed(hist[i + 1])
    /\ hist[i + 1].epoch0 = hist[i].epoch1

C1_Idempotence ==
    \A i \in 1..(Len(hist) - 1) :
        SameRootTwice(i) =>
            /\ hist[i + 1].result.games_added = 0
            /\ hist[i + 1].result.games_updated = hist[i].result.games_added

(***************************************************************************)
(* C2.  One scan of one directory over an empty table: for every set of    *)
(* two or more disc files with the same base title there is exactly one    *)
(* row, at <dir>/<base title>.m3u, no row for a member disc, and           *)
(* games_found counts the playlist once and no member: it is the number of *)
(* importable items.                                                       *)
(***************************************************************************)
OneRootScan(h) == h.fresh /\ Undisturbed(h) /\ Len(Walked(h.paths)) = 1
RootOf(h) == Walked(h.paths)[1].path
PassOf(h) == CHOOSE k \in 1..Len(h.paths) : h.paths[k].path \in WalkRoots

C2_MultiDiscAggregation ==
    (JustReturned /\ OneRootScan(Last)) =>
        /\ \A e \in MultiDisc(RootOf(Last)) :
              /\ Cardinality(RowsAt(Resolved[PlaylistOf(e)])) = 1
              /\ RowsAt(Resolved[e]) = {}
              /\ Count(Last.log, {"found"}, PlaylistOf(e), PassOf(Last)) = 1
              /\ Count(Last.log, {"found"}, e, PassOf(Last)) = 0
        /\ RomPaths = {Resolved[p] : p \in Importable(RootOf(Last))}
        /\ Last.result.games_found = Cardinality(Importable(RootOf(Last)))

\* a scan that wrote the playlist of a disc set and added it
C2_Witness ==
    /\ JustReturned
    /\ OneRootScan(Last)
    /\ MultiDisc(RootOf(Last)) # {}
    /\ \E k \in 1..Len(Last.log) : Last.log[k].ev = "write"
    /\ Last.result.games_added >= 1

(***************************************************************************)
(* C3.  In one scan of one root, with no failure, every playlist artifact  *)
(* (reused or written) adds exactly 1 to games_found and exactly 1 to      *)
(* games_added + games_updated.                                            *)
(***************************************************************************)
C3_PlaylistCountedOnce ==
    \A i \in 1..Len(hist) :
        (Undisturbed(hist[i]) /\ Len(hist[i].paths) = 1) =>
            \A k \in 1..Len(hist[i].log) :
                hist[i].log[k].ev \in {"reuse", "write"} =>
                    /\ Count(hist[i].log, {"found"}, hist[i].log[k].path, 1) = 1
                    /\ Count(hist[i].log, {"added", "updated"},
                             hist[i].log[k].path, 1) = 1

(***************************************************************************)
(* C4.  Whatever the scans, overlapping or not: no two rows have the same  *)
(* rom_path; and an insert that finds the path taken since the call's      *)
(* get_game_by_path changes no row and no counter and appends one error    *)
(* string.                                                                 *)
(***************************************************************************)
UniquePaths == \A g1, g2 \in games : g1.rom_path = g2.rom_path => g1 = g2

\* caller c is between get_game_by_path and add_game, and the path is taken
LostRace(c) ==
    /\ scan[c].pc \in {"file_add", "m3u_add"}
    /\ get_game_by_path(scan[c].rom_path)

SameCounters(r, s) ==
    /\ r.games_found = s.games_found
    /\ r.games_added = s.games_added
    /\ r.games_updated = s.games_updated

LostRaceIsAnError ==
    \A c \in Callers :
        (LostRace(c) /\ scan'[c] # scan[c]) =>
            /\ games' = games
            /\ SameCounters(scan'[c].result, scan[c].result)
            /\ Len(scan'[c].result.errors) = Len(scan[c].result.errors) + 1

C4_NoDuplicateEntries == [](UniquePaths) /\ [][LostRaceIsAnError]_vars

\* a call whose insert was refused: the other call had inserted the path
C4_Witness ==
    \E c \in Callers : \E k \in 1..Len(scan[c].log) :
        /\ scan[c].log[k].ev = "add_failed"
        /\ ~scan[c].alone
        /\ Cardinality(games) >= 1

(***************************************************************************)
(* C5.  A scan that ran to its end without a failure, after a scan of the  *)
(* same folders that stopped anywhere, leaves the table with exactly the   *)
(* paths of the importable items of the folders, one row each.             *)
(***************************************************************************)
ExpectedPaths(paths) ==
    UNION {{Resolved[p] : p \in Importable(paths[k].path)} : k \in 1..Len(paths)}

C5_CrashRecovery ==
    (JustReturned /\ Last.clean /\ Last.epoch0 = Last.epoch1) =>
        /\ RomPaths = ExpectedPaths(Last.paths)
        /\ \A p \in RomPaths : Cardinality(RowsAt(p)) = 1

\* the scan before crashed after it had written a playlist and inserted rows
C5_Witness ==
    /\ JustReturned
    /\ Last.clean
    /\ Last.epoch0 = 1
    /\ Last.epoch1 = 1
    /\ Last.result.games_updated >= 1
    /\ Last.result.games_added >= 1
    /\ \E k \in 1..Len(Last.log) : Last.log[k].ev = "reuse"

(***************************************************************************)
(* C6.  A scan path that does not exist adds one error string and nothing  *)
(* else: the errors are those of the missing paths, in order, and          *)
(* games_found and games_added are what the existing paths of the list     *)
(* give, wherever the missing ones stand in it.                            *)
(***************************************************************************)
Missing(paths) == SelectSeq(paths, LAMBDA sp : sp.path \notin WalkRoots)

RECURSIVE FoundIn(_)
FoundIn(paths) ==
    IF paths = <<>> THEN 0
    ELSE Cardinality(Importable(paths[1].path)) + FoundIn(Tail(paths))

C6_ErrorIsolation ==
    (JustReturned /\ Undisturbed(Last)) =>
        /\ Last.result.errors =
              [k \in 1..Len(Missing(Last.paths)) |->
                  "Path does not exist: " \o Missing(Last.paths)[k].path]
        /\ Last.result.games_found = FoundIn(Walked(Last.paths))
        /\ Last.fresh =>
              Last.result.games_added =
                  Cardinality(ExpectedPaths(Walked(Last.paths)))

\* a missing path first, and files imported from the path after it
C6_Witness ==
    /\ JustReturned
    /\ Undisturbed(Last)
    /\ Last.fresh
    /\ Len(Last.paths) = 2
    /\ Last.paths[1].path \notin WalkRoots
    /\ Last.paths[2].path \in WalkRoots
    /\ Last.result.games_added >= 1
    /\ Len(Last.result.errors) = 1

(***************************************************************************)
(* C7.  A step in which get_game_by_path fails.                            *)
(***************************************************************************)
QueryFailed(c) ==
    /\ scan[c].pc \in {"files", "m3us"}
    /\ Len(scan'[c].log) > Len(scan[c].log)
    /\ scan'[c].log[Len(scan'[c].log)].ev = "query_failed"

OneMoreError(c) ==
    Len(scan'[c].result.errors) = Len(scan[c].result.errors) + 1

GenerationErrors(errors, base_name) ==
    {j \in 1..Len(errors) :
        starts_with(errors[j], "Failed to generate .m3u for " \o base_name \o ":")}

FailedWrites(log, base_name) ==
    {k \in 1..Len(log) :
        log[k].ev = "write_failed" /\ FileStem[log[k].path] = base_name}

MembersOf(m3u_path, root) == {e \in MultiDisc(root) : PlaylistOf(e) = m3u_path}

\* no other scan path of the call is the directory of paths[idx]
WalkedOnce(paths, idx) ==
    \A j \in 1..Len(paths) :
        j # idx => Resolved[paths[j].path] # Resolved[paths[idx].path]

Reached == {"found", "updated", "add_failed", "query_failed", "write_failed"}

Passes(c, key) == AtGroup(c, key) /\ key \notin scan'[c].todo /\ scan'[c] # IdleScan

PlaylistKept(c, key) ==
    LET m3u_path == Resolved[key[1] \o "/" \o key[2] \o ".m3u"]
    IN  IF m3u_path \in DOMAIN disk
        THEN disk' = disk
        ELSE /\ DOMAIN disk' = DOMAIN disk \cup {m3u_path}
             /\ disk'[m3u_path] # UserContent
             /\ \A q \in DOMAIN disk : disk'[q] = disk[q]

ReuseOrWrite ==
    \A c \in Callers : \A key \in scan[c].todo : Passes(c, key) => PlaylistKept(c, key)

\* the members of every disc set are skipped and the playlist is reconciled
MembersCovered ==
    (JustReturned /\ Undisturbed(Last) /\ Len(Walked(Last.paths)) = 1) =>
        \A e \in MultiDisc(RootOf(Last)) :
            /\ Count(Last.log, {"found", "added", "updated"}, e, PassOf(Last)) = 0
            /\ Count(Last.log, {"reuse", "write"}, PlaylistOf(e), PassOf(Last)) = 1
            /\ Count(Last.log, {"added", "updated"}, PlaylistOf(e), PassOf(Last)) >= 1

C9_PlaylistReuse == [][ReuseOrWrite]_vars /\ [](MembersCovered)

\* the user's Game.m3u was reused and is as it was, beside another playlist
C9_Witness ==
    /\ JustReturned
    /\ Undisturbed(Last)
    /\ Last.paths = <<ScanPath("/roms", None)>>
    /\ \E k \in 1..Len(Last.log) :
          Last.log[k].ev = "reuse" /\ Last.log[k].path = "/roms/Game.m3u"
    /\ "/roms/Mix.m3u" \in DOMAIN disk
    /\ disk["/roms/Game.m3u"] = UserContent
    /\ RowsAt("/roms/Game (Disc 1).cue") = {}

(***************************************************************************)
(* C10.  A disc file that is alone in its (directory, base title) group:   *)
(* no playlist is written or reused for it, it is counted and has its row, *)
(* and the row's title is clean_rom_title of the base title, the stem      *)
(* without its disc tag.                                                   *)
(***************************************************************************)
StrippedTitle ==
    [f \in WalkPaths |-> clean_rom_title(get_base_game_name(file_stem(f)))]

C10_SingleDisc ==
    (JustReturned /\ Undisturbed(Last) /\ Len(Walked(Last.paths)) = 1) =>
        \A e \in LoneDisc(RootOf(Last)) :
            /\ Count(Last.log, {"found"}, e, PassOf(Last)) = 1
            /\ Cardinality(RowsAt(Resolved[e])) = 1
            /\ \A g \in RowsAt(Resolved[e]) : g.title = StrippedTitle[e]
            /\ Count(Last.log, {"reuse", "write"}, PlaylistOf(e), PassOf(Last)) = 0
            /\ Resolved[PlaylistOf(e)] \in DOMAIN disk
                  => disk[Resolved[PlaylistOf(e)]] = UserContent

\* Solo - CD1 alone in /roms, imported under the title Solo
C10_Witness ==
    /\ JustReturned
    /\ Undisturbed(Last)
    /\ Last.paths = <<ScanPath("/roms", None)>>
    /\ "/roms/Solo - CD1 (USA).chd" \in LoneDisc("/roms")
    /\ \E g \in games :
          g.rom_path = "/roms/Solo - CD1 (USA).chd" /\ g.title = "Solo"
    /\ "/roms/Solo (USA).m3u" \notin DOMAIN disk

(***************************************************************************)
(* C11.  A .bin file in whose directory some file has the extension cue,   *)
(* in any case of letters, is never a Discovered File of a scan, never     *)
(* counted in gamesFound, never inserted in the table; a .cue file is a    *)
(* Discovered File exactly once in each walk that meets it.                *)
(***************************************************************************)
OnDisk(ext) == {q \in DOMAIN disk : ExtOf[q] = ext}
Suppressed ==
    {q \in OnDisk(".bin") : \E p \in OnDisk(".cue") : Parent[p] = Parent[q]}

\* the logs of the calls that returned and of the calls that run
Logs == {hist[i].log : i \in 1..Len(hist)} \cup {scan[c].log : c \in Callers}

\* the positions of a file among the Discovered Files of a running call
Discoveries(c, q) ==
    {k \in 1..Len(scan[c].discovered_files) :
        Resolved[scan[c].discovered_files[k].path] = q}

HasWalked(c) == scan[c].pc \in {"groups", "files", "file_add", "m3us", "m3u_add"}

C11_CueBinSuppression ==
    /\ \A q \in Suppressed :
          /\ \A c \in Callers : Discoveries(c, q) = {}
          /\ \A log \in Logs : \A k \in 1..Len(log) :
                log[k].ev \in {"found", "added", "updated"} => Resolved[log[k].path] # q
          /\ RowsAt(q) = {}
    /\ \A q \in OnDisk(".cue") : \A c \in Callers :
          HasWalked(c) => Cardinality(Discoveries(c, q)) = 1

C11_Witness ==
    /\ JustReturned
    /\ DOMAIN disk = {"/roms/genesis/Sonic.bin", "/roms/genesis/Sonic.CUE", "/roms/Track.bin"}
    /\ Last.result.games_found = 2
    /\ RomPaths = {"/roms/genesis/Sonic.CUE", "/roms/Track.bin"}

(***************************************************************************)
(* C12.  The platform of a Discovered File: the root's override when one   *)
(* was given; else the one platform of an extension with one candidate;    *)
(* else the hinter's result when it is among the candidates; else the      *)
(* first candidate.  Without an override it is one of the candidates.      *)
(***************************************************************************)
C12_PlatformPriority ==
    \A c \in Callers : \A k \in 1..Len(scan[c].discovered_files) :
        LET f == scan[c].discovered_files[k]
            override == scan[c].paths[scan[c].idx].platform_id
            candidates == Candidates[f.path]
            hint == Detected[Resolved[f.path]]
        IN  IF override # None THEN f.platform_id = override
            ELSE /\ InSeq(f.platform_id, candidates)
                 /\ Len(candidates) = 1 => f.platform_id = candidates[1]
                 /\ Len(candidates) > 1 /\ InSeq(hint, candidates) =>
                        f.platform_id = hint
                 /\ Len(candidates) > 1 /\ ~InSeq(hint, candidates) =>
                        f.platform_id = candidates[1]

PlatformOf(c, q) ==
    {scan[c].discovered_files[k].platform_id : k \in Discoveries(c, q)}

C12_Witness ==
    /\ HasWalked("c1")
    /\ scan["c1"].paths[1].platform_id = None
    /\ PlatformOf("c1", "/roms/Mario (USA).sfc") = {"snes"}
    /\ PlatformOf("c1", "/roms/ps2/Game.iso") = {"ps2"}
    /\ PlatformOf("c1", "/roms/ps3/Game.iso") = {"xbox"}
    /\ PlatformOf("c1", "/roms/Game.iso") = {"xbox"}

(***************************************************************************)
(* C13.  Whenever a row is inserted for a playlist artifact of the running *)
(* pass, a playlist the pass has written or has reused, the row's platform *)
(* id is what the hinter gives for the playlist's path, or ps1 when the    *)
(* hinter gives nothing.                                                   *)
(***************************************************************************)
\* the playlists the pass of a call that is under way has written or reused
Artifacts(c) ==
    {Resolved[scan[c].log[k].path] :
        k \in {j \in 1..Len(scan[c].log) :
                  /\ scan[c].log[j].ev \in {"reuse", "write"}
                  /\ scan[c].log[j].idx = scan[c].idx}}

HintOrPs1(rom_path) ==
    IF detect_platform_from_path(rom_path) # None
    THEN detect_platform_from_path(rom_path) ELSE "ps1"

C13_PlaylistPlatform ==
    [][\A g \in games' \ games :
          g.rom_path \in Artifacts(g.id[1]) => g.platform_id = HintOrPs1(g.rom_path)]_vars

(***************************************************************************)
(* C14.  When the table already has a row at the path of the item that the *)
(* reconciler takes up, the step adds one to gamesUpdated and nothing to   *)
(* gamesAdded, inserts no row and leaves every row as it was; no step of   *)
(* a scan changes or removes a row, whatever override the scan was given.  *)
(***************************************************************************)
\* the events that the step appends to the log of a call
NewEvents(c) ==
    IF Len(scan'[c].log) > Len(scan[c].log)
    THEN {scan'[c].log[k].ev : k \in (Len(scan[c].log) + 1)..Len(scan'[c].log)}
    ELSE {}

\* the step takes up an item whose path has a row
TakesUpKnownItem(c) ==
    \/ /\ scan[c].pc = "files"
       /\ scan'[c] # scan[c]
       /\ canonicalize(file(c).path) \in RomPaths
    \/ /\ scan[c].pc = "m3us"
       /\ \E m3u_path \in scan[c].m3u_todo \ scan'[c].m3u_todo :
              canonicalize(m3u_path) \in RomPaths

C14_RescanUntouched ==
    [][/\ games \subseteq games'
       /\ \A c \in Callers :
             /\ TakesUpKnownItem(c) => "updated" \in NewEvents(c)
             /\ "updated" \in NewEvents(c) =>
                   /\ games' = games
                   /\ scan'[c].result.games_updated = scan[c].result.games_updated + 1
                   /\ scan'[c].result.games_added = scan[c].result.games_added]_vars

C14_Witness ==
    /\ Len(hist) = 2
    /\ hist[1].paths = <<ScanPath("/roms", "saturn")>>
    /\ hist[2].paths = <<ScanPath("/roms", None)>>
    /\ hist[1].result.games_added = 2
    /\ hist[2].result.games_updated >= 2
    /\ hist[2].result.games_added = 0
    /\ \A g \in games : g.platform_id = "saturn"

(***************************************************************************)
(* C15.  A call returns an error and no Scan Result exactly when the       *)
(* listing of the platforms, the one read of the store on which the whole  *)
(* call depends, fails.  A missing root, a playlist that cannot be         *)
(* written, a query or an insert that fails for one item: each appends one *)
(* error string while the call goes on, and the call returns a Scan Result *)
(* with one error string for each of them.                                 *)
(***************************************************************************)
ItemFailures == {"missing_root", "write_failed", "query_failed", "add_failed"}

EventsOf(log) == {log[k].ev : k \in 1..Len(log)}

FailuresIn(log) == Cardinality({k \in 1..Len(log) : log[k].ev \in ItemFailures})

C15_FailsOutright ==
    /\ [](\A i \in 1..Len(hist) :
            /\ hist[i].returned = "Err" <=> "platforms_failed" \in EventsOf(hist[i].log)
            /\ hist[i].returned = "Err" <=> "result" \notin DOMAIN hist[i]
            /\ hist[i].returned = "Ok" =>
                  Len(hist[i].result.errors) = FailuresIn(hist[i].log))
    /\ [][\A c \in Callers :
            NewEvents(c) \cap ItemFailures # {} =>
                /\ hist' = hist
                /\ Len(scan'[c].result.errors) = Len(scan[c].result.errors) + 1]_vars

C15_Witness ==
    /\ Len(hist) = 2
    /\ hist[1].returned = "Ok"
    /\ EventsOf(hist[1].log) \cap ItemFailures = {"missing_root"}
    /\ hist[1].result.games_added > 0
    /\ hist[2].returned = "Err"

Phase(ev) ==
    CASE ev \in {"walk", "missing_root"} -> 1
      [] ev \in {"reuse", "write", "write_failed"} -> 2
      [] OTHER -> 3

\* the positions of an event in a log
Positions(log, ev) == {k \in 1..Len(log) : log[k].ev = ev}

RECURSIVE Lines(_)
Lines(content) ==
    IF \E i \in 1..Len(content) : Ch(content, i) = "\n"
    THEN LET i == CHOOSE i \in 1..Len(content) :
                      /\ Ch(content, i) = "\n"
                      /\ \A j \in 1..(i - 1) : Ch(content, j) # "\n"
         IN  <<SubSeq(content, 1, i - 1)>> \o Lines(SubSeq(content, i + 1, Len(content)))
    ELSE <<content>>

\* the playlist that the step of a call writes: the path of the event
Written(c) == scan'[c].log[Len(scan'[c].log)].path

\* the members of the disc group whose playlist is at the path
GroupAt(m3u, root) == {e \in MultiDisc(root) : PlaylistOf(e) = m3u}

\* the disc numbers of the members with this file name
NumbersOf(line, members) ==
    {Annotated[e].disc_number[1] : e \in {f \in members : FileName[f] = line}}

C17_PlaylistContent ==
    [][\A c \in Callers :
          "write" \in NewEvents(c) =>
              LET lines == Lines(disk'[Resolved[Written(c)]])
                  members == GroupAt(Written(c), scan_path(c).path)
              IN  /\ Len(lines) = Cardinality(members)
                  /\ Len(lines) >= 2
                  /\ \A e \in members :
                        Cardinality({k \in 1..Len(lines) : lines[k] = FileName[e]}) = 1
                  /\ \A k \in 1..Len(lines) :
                        /\ ~contains(lines[k], "/")
                        /\ NumbersOf(lines[k], members) # {}
                  /\ \A j, k \in 1..Len(lines) :
                        j < k => \A m \in NumbersOf(lines[j], members) :
                                    \A n \in NumbersOf(lines[k], members) : m <= n]_vars

C17_Witness ==
    /\ "write" \in EventsOf(scan["c1"].log)
    /\ "/roms/Game.m3u" \in DOMAIN disk
    /\ "/roms/Solo (USA).m3u" \in DOMAIN disk
    /\ disk["/roms/Game.m3u"] = "Game (Disc 1).cue\nGame (Disc 2).cue"
    /\ disk["/roms/Solo (USA).m3u"] = "Solo - CD1 (USA).chd\nSolo - CD2 (USA).chd"

(***************************************************************************)
(* C18.  detect_platform_from_path returns the platform of the first entry *)
(* of the hint table, in table order, one of whose keywords matches one of *)
(* the path's segments by one of the four rules, and None when there is no *)
(* such entry; which entry that is depends on the set of the segments, not *)
(* on their order in the path.                                             *)
(***************************************************************************)
\* does the text occur in the segment at position i?
OccursAt(segment, i, text) ==
    /\ i >= 1
    /\ i + Len(text) - 1 <= Len(segment)
    /\ SubSeq(segment, i, i + Len(text) - 1) = text

Rule(segment, keyword) ==
    \/ segment = keyword
    \/ \E i \in 1..Len(segment) : OccursAt(segment, i, keyword \o " ")
    \/ \E i \in 1..Len(segment) : OccursAt(segment, i, " " \o keyword)
    \/ OccursAt(segment, 1, keyword \o "_")
    \/ OccursAt(segment, Len(segment) - Len(keyword), "_" \o keyword)

\* the entries of the hint table with a keyword that matches a segment
MatchingHints(segments) ==
    {h \in 1..Len(platform_hints) :
        \E w \in 1..Len(platform_hints[h][2]) : \E segment \in segments :
            Rule(to_lowercase(segment), platform_hints[h][2][w])}

FirstHint(segments) ==
    IF MatchingHints(segments) = {} THEN None
    ELSE platform_hints[CHOOSE h \in MatchingHints(segments) :
                            \A g \in MatchingHints(segments) : h <= g][1]

SegmentsOf(arg) == {arg.segments[k] : k \in 1..Len(arg.segments)}

C18_HinterDeterminism ==
    (call.fn = "detect_platform_from_path" /\ call.done) =>
        call.ret = FirstHint(SegmentsOf(call.arg))

C18_Witness ==
    /\ call.fn = "detect_platform_from_path"
    /\ call.done
    /\ call.arg.segments = <<"roms", "xbox 360", "PS2">>
    /\ call.arg.separator = "\\"
    /\ call.ret = "ps2"

(***************************************************************************)
(* C19.  For a stem that is a title followed by a disc indicator with the  *)
(* number n, get_disc_number gives n and get_base_game_name gives the      *)
(* title, without the indicator and without whitespace around it; so the   *)
(* stems of one title that differ in the disc number have one base title.  *)
(***************************************************************************)
C19_DiscRoundTrip ==
    (call.fn = "get_disc_number" /\ call.done) =>
        /\ call.ret.disc_number = Some(call.arg.n)
        /\ call.ret.base_name = call.arg.title

C19_Witness ==
    /\ call.fn = "get_disc_number"
    /\ call.done
    /\ StemOf(call.arg) = "Final Fantasy VII (Disc 3 of 4)"
    /\ call.ret = [disc_number |-> <<3>>, base_name |-> "Final Fantasy VII"]

(***************************************************************************)
(* C20.  clean_rom_title gives the name without its (...) groups, then     *)
(* without its [...] groups, then without its {...} groups, each removed   *)
(* with the whitespace before it, the runs of whitespace made one space    *)
(* and the ends trimmed.  In the result no opening bracket is followed,    *)
(* anywhere later, by the closing bracket of its kind, and cleaning the    *)
(* result again gives the result.                                          *)
(***************************************************************************)
\* the position of the first character at or after i that is not a space
RECURSIVE PastSpaces(_, _)
PastSpaces(s, i) ==
    IF i <= Len(s) /\ Ch(s, i) = " " THEN PastSpaces(s, i + 1) ELSE i

\* the positions after i that hold the character
After(s, i, c) == {k \in (i + 1)..Len(s) : Ch(s, k) = c}

RECURSIVE Strip(_, _, _, _)
\* s from position i on, without the groups open..close and the spaces
\* before them; a group ends at the first close after its open
Strip(s, i, open, close) ==
    IF i > Len(s) THEN ""
    ELSE LET j == PastSpaces(s, i) IN
         IF j <= Len(s) /\ Ch(s, j) = open /\ After(s, j, close) # {}
         THEN Strip(s, 1 + CHOOSE k \in After(s, j, close) :
                               \A m \in After(s, j, close) : k <= m, open, close)
         ELSE Ch(s, i) \o Strip(s, i + 1, open, close)

RECURSIVE Squeeze(_, _)
\* s from position i on, without the spaces that follow a space or nothing
Squeeze(s, i) ==
    IF i > Len(s) THEN ""
    ELSE IF Ch(s, i) = " " /\ (i = 1 \/ Ch(s, i - 1) = " ") THEN Squeeze(s, i + 1)
    ELSE Ch(s, i) \o Squeeze(s, i + 1)

WithoutLastSpace(s) ==
    IF Len(s) > 0 /\ Ch(s, Len(s)) = " " THEN SubSeq(s, 1, Len(s) - 1) ELSE s

Cleaned(title) ==
    WithoutLastSpace(Squeeze(
        Strip(Strip(Strip(title, 1, "(", ")"), 1, "[", "]"), 1, "{", "}"), 1))

HasPair(s, open, close) ==
    \E i \in 1..Len(s) : Ch(s, i) = open /\ After(s, i, close) # {}

C20_TitleCleaning ==
    (call.fn = "clean_rom_title" /\ call.done) =>
        /\ call.ret = Cleaned(call.arg)
        /\ ~HasPair(call.ret, "(", ")")
        /\ ~HasPair(call.ret, "[", "]")
        /\ ~HasPair(call.ret, "{", "}")
        /\ clean_rom_title(call.ret) = call.ret

C20_Witness ==
    /\ call.fn = "clean_rom_title"
    /\ call.done
    /\ call.arg = "Mario (USA) [!] {beta}  2"
    /\ call.ret = "Mario 2"

(***************************************************************************)
(* Properties of the commands on games.                                    *)
(***************************************************************************)
\* the command that has just returned
Returns(fn) ==
    /\ Len(journal') = Len(journal) + 1
    /\ journal'[Len(journal')].fn = fn

\* C21: delete_games_batch is one transaction: when the deletion of an id of
\* the list fails, no game has been removed from the table; when it succeeds,
\* it returns how many rows it deleted
C21_BatchAtomic ==
    [][Returns("delete_games_batch") =>
          LET returned == journal'[Len(journal')]
          IN  /\ returned.ret = "Err" => games' = games
              /\ returned.ret = "Ok" =>
                    /\ returned.deleted = Cardinality(games \ games')
                    /\ games' \subseteq games
                    /\ \A i \in 1..Len(returned.ids) :
                          \A g \in games' : g.id # returned.ids[i]]_vars

(***************************************************************************)
(* Properties of the metadata client.                                      *)
(***************************************************************************)
\* the keys of the platform table
IgdbKeys == {mapping[i][1] : i \in 1..Len(mapping)}

\* C22: get_igdb_platform_id is a fixed total lookup: a key of the table gets
\* its number (snes 19, ps2 8), the same on every call, every other id gets
\* None, and search_games filters by platform exactly when the id is a key
C22_PlatformLookup ==
    (call.fn = "search_games" /\ call.done) =>
        LET id == call.arg.platform_id
            number == call.ret.igdb_platform_id
        IN  /\ id \notin IgdbKeys => number = NoNumber
            /\ id \in IgdbKeys =>
                  /\ number # NoNumber
                  /\ \E i \in 1..Len(mapping) : mapping[i] = <<id, number[1]>>
            /\ id = "snes" => number = Some(19)
            /\ id = "ps2" => number = Some(8)
            /\ number = get_igdb_platform_id(id)
            /\ contains(call.ret.body, "where platforms = (") <=> id \in IgdbKeys
            /\ id \in IgdbKeys =>
                  contains(call.ret.body,
                           " where platforms = (" \o Decimal(number[1]) \o "); limit 20;")

\* search_games has been called for snes and has asked for platform 19
C22_Witness ==
    /\ call.fn = "search_games" /\ call.done
    /\ call.arg.platform_id = "snes"
    /\ contains(call.ret.body, "where platforms = (19)")

(***************************************************************************)
(* Properties of scans that follow one another.                            *)
(***************************************************************************)
\* the playlist on disk at the path of the row lists the file of the other
\* row, which is in its directory
Covers(playlist, disc) ==
    /\ Ext(playlist.rom_path) = ".m3u"
    /\ playlist.rom_path \in DOMAIN disk
    /\ is_disc_extension(Ext(disc.rom_path))
    /\ Parent[disc.rom_path] = Parent[playlist.rom_path]
    /\ \E k \in 1..Len(Lines(disk[playlist.rom_path])) :
          Lines(disk[playlist.rom_path])[k] = FileName[disc.rom_path]

\* C23: after any sequence of scans, with disc files added in between, the
\* table never has a row for a playlist and a row for a disc file that the
\* playlist covers
C23_NoCoveredDisc ==
    (AllIdle /\ hist # <<>>) =>
        \A playlist \in games : \A disc \in games : ~Covers(playlist, disc)

\* C24: in every Scan Result that scan_library returns, games_added plus
\* games_updated is at most games_found
C24_CounterConsistency ==
    \A i \in 1..Len(hist) :
        hist[i].returned = "Ok" =>
            hist[i].result.games_added + hist[i].result.games_updated
                <= hist[i].result.games_found

\* the playlists that the pass of a call that is under way has written
GeneratedBy(c) ==
    {Resolved[scan[c].log[k].path] :
        k \in {j \in 1..Len(scan[c].log) :
                  scan[c].log[j].ev = "write" /\ scan[c].log[j].idx = scan[c].idx}}

\* the platform ids resolved for the disc files that the playlist at the
\* path stands for, in the pass under way
MemberPlatforms(c, rom_path) ==
    {scan[c].discovered_files[k].platform_id :
        k \in {j \in 1..Len(scan[c].discovered_files) :
                  /\ scan[c].discovered_files[j].disc_number # NoNumber
                  /\ Resolved[PlaylistOf(scan[c].discovered_files[j].path)] = rom_path}}

PlaylistMade(h, e) ==
    \E k \in 1..Len(h.log) :
        h.log[k].ev \in {"write", "reuse"} /\ h.log[k].path = PlaylistOf(e)

\* the scan has taken up the disc file as an item of its own
TakenUp(h, e) ==
    \E k \in 1..Len(h.log) : h.log[k].ev = "found" /\ h.log[k].path = e

\* the disc numbers in the disc file's group
NumbersIn(e, root) == {Annotated[f].disc_number : f \in DiscSet(e, root)}

\* C26: a disc group is a multi-disc set only when it holds two distinct disc
\* numbers: for files of one directory with the same base title and the same
\* disc number no playlist is made and the files are taken up one by one
C26_DistinctNumbers ==
    \A i \in 1..Len(hist) :
        hist[i].returned = "Ok" =>
            \A e \in DiscFiles(hist[i].paths[1].path) :
                Cardinality(NumbersIn(e, hist[i].paths[1].path)) < 2 =>
                    /\ ~PlaylistMade(hist[i], e)
                    /\ TakenUp(hist[i], e)

(***************************************************************************)
(* Properties of the hint table.                                           *)
(***************************************************************************)
\* the platforms that list the keyword
PlatformsOf(keyword) ==
    {platform_hints[h][1] :
        h \in {g \in 1..Len(platform_hints) :
                  \E w \in 1..Len(platform_hints[g][2]) :
                      platform_hints[g][2][w] = keyword}}

\* C27: a path whose only segment that is not empty is a keyword of the hint
\* table is hinted as the platform that lists the keyword
C27_KeywordsHintTheirPlatform ==
    (call.fn = "detect_platform_from_path" /\ call.done) =>
        \A k \in 1..Len(call.arg.segments) :
            call.arg.segments[k] \in Keywords =>
                PlatformsOf(call.arg.segments[k]) = {call.ret}

(***************************************************************************)
(* Properties of the play sessions.                                        *)
(***************************************************************************)
\* the launches of the game that succeeded, and the end_game_session calls
\* for it that have returned: their places in the journal
LaunchesOf(game_id) ==
    {i \in 1..Len(journal) :
        journal[i].fn \in LaunchCommands /\ journal[i].game_id = game_id}

EndsOf(game_id) ==
    {i \in 1..Len(journal) :
        journal[i].fn = "end_game_session" /\ journal[i].game_id = game_id}

\* the game has been launched, no command for it is under way, and
\* end_game_session was called for it after its last launch had returned
EndedAfterLastLaunch(game_id) ==
    /\ LaunchesOf(game_id) # {}
    /\ \A c \in Callers : command[c] # NoCommand => command[c].game_id # game_id
    /\ \E i \in EndsOf(game_id) :
          \A j \in LaunchesOf(game_id) : j <= journal[i].began

\* C28: once end_game_session has been called for a game after its last
\* launch, no play session of the game is without an end time
C28_SessionsClosed ==
    \A g \in games :
        EndedAfterLastLaunch(g.id) =>
            \A s \in play_sessions : s.game_id = g.id => s.end_time # NoNumber

\* the end_game_session calls that found a session and returned Ok
Credits ==
    {i \in 1..Len(journal) :
        /\ journal[i].fn = "end_game_session"
        /\ journal[i].session_id # NoNumber
        /\ journal[i].ret = "Ok"}

RECURSIVE SecondsCredited(_, _)
\* the seconds that the first n commands of the journal added for the game
SecondsCredited(game_id, n) ==
    IF n = 0 THEN 0
    ELSE SecondsCredited(game_id, n - 1)
         + (IF n \in Credits /\ journal[n].game_id = game_id
            THEN journal[n].seconds ELSE 0)

\* C29: the duration of a tracked session is added to the game's total play
\* time at most once, however many end_game_session calls there are and
\* however they overlap with other commands; a call for a game with no active
\* session returns Ok and changes neither play sessions nor total play time
C29_CreditedOnce ==
    /\ [](/\ \A i \in Credits : \A j \in Credits :
                journal[i].session_id = journal[j].session_id => i = j
          /\ \A g \in games :
                PlayTime(g.id) = SecondsCredited(g.id, Len(journal)))
    /\ [][(Returns("end_game_session")
           /\ journal'[Len(journal')].session_id = NoNumber) =>
              /\ journal'[Len(journal')].ret = "Ok"
              /\ play_sessions' = play_sessions
              /\ total_play_time_seconds' = total_play_time_seconds
              /\ active_sessions' = active_sessions]_vars

\* a session of a second or more has been ended and credited, and
\* end_game_session has been called for the game once more
C29_Witness ==
    \E i \in Credits : \E j \in EndsOf(journal[i].game_id) :
        /\ i < j
        /\ journal[i].seconds > 0
        /\ journal[j].session_id = NoNumber
        /\ PlayTime(journal[i].game_id) = journal[i].seconds

\* C30: when end_game_session returns an error, because end_play_session or
\* update_game_play_time failed, the session of the game is still in
\* active_sessions, for a later call to record
C30_TrackedAfterError ==
    [][(Returns("end_game_session") /\ journal'[Len(journal')].ret = "Err") =>
          LET returned == journal'[Len(journal')]
          IN  /\ returned.game_id \in DOMAIN active_sessions'
              /\ active_sessions'[returned.game_id].session_id = returned.session_id]_vars
====
